---- MODULE Spec2Model ----
(***************************************************************************)
(* A model of the option-chain analytics and signal engine:                *)
(*   backend/analytics.py     OptionAnalytics (per-strike and aggregate)   *)
(*   backend/option_chain.py  OptionChain (cycle loop, sentiment, history) *)
(*   option_signals.py        AdvancedOptionSignalGenerator                *)
(*                                                                         *)
(* Conventions.                                                            *)
(*  - Python None is the empty sequence << >>, a present value x is <<x>>  *)
(*    wherever a name may hold either.                                     *)
(*  - A Python dict is a TLA+ record; d.get(k, dflt) is Get(d, k, dflt)    *)
(*    and d[k] = v on a possibly absent key is [k |-> v] @@ d.             *)
(*  - A float that the code obtains by dividing two integers is the exact  *)
(*    fraction <<numerator, denominator>> with denominator > 0, compared   *)
(*    by cross multiplication.  For the integer ranges explored here the   *)
(*    correctly rounded double quotient orders against the literals the    *)
(*    same way as the exact fraction.                                      *)
(*  - A Python list object lives in `heap` under an object id; a dict      *)
(*    entry or a local that holds the list holds its id.                   *)
(***************************************************************************)
EXTENDS Integers, Sequences, FiniteSets, TLC

VARIABLES
    \* ---- OptionChain (backend/option_chain.py)
    max_historical_points,  \* self.max_historical_points
    current_data,           \* self.current_data : symbol -> None | analysed data
    historical_data,        \* self.historical_data : symbol -> id of a list object
    heap,                   \* list objects: id -> None (free) | <<list>>
    results,                \* fetch_all_chains' local dict
    chain_pc,               \* "idle" | "loop" : position in fetch_all_chains
    sym_idx,                \* index of the loop variable `symbol` in self.symbols
    cycles,                 \* number of fetch_all_chains calls started
    clock,                  \* datetime.now(), as a tick counter
    appended,               \* history: per symbol, every point ever appended
    outcome,                \* history: per symbol, how this cycle's iteration ended
    \* ---- two concurrent _update_historical_data calls
    th,                     \* per thread: pc and locals
    \* ---- one call of _calculate_sentiment_score
    ss_pcr,                 \* pcr_data['pcr_oi']
    ss_skew,                \* skew_patterns
    ss_strikes,             \* strike_data
    ss_score,               \* None | <<the returned score>>
    \* ---- calls of find_max_pain
    mp_strike_data,         \* strike_data, in the order of the current call
    mp_first,               \* the first call and what it returned
    mp_result,              \* the current call and what it returned
    \* ---- AdvancedOptionSignalGenerator (option_signals.py)
    today,                  \* datetime.now(), as a day number
    sg_data,                \* the payload fetch_option_chain returned
    sg_analysis,            \* the call of analyze_atm_strikes
    sg_option_type,         \* the side select_optimal_strike was asked for
    sg_choice,              \* the call of select_optimal_strike
    sg_signal,              \* the call of generate_advanced_signal
    \* ---- run_complete_analysis
    rca_pc,                 \* "idle" | "loop" | "returned" | "raised"
    rca_idx,                \* index of the loop variable `sym` in self.symbols
    rca_fetched,            \* history: what each fetch of this run returned
    all_signals,            \* run_complete_analysis' local list
    market_data,            \* run_complete_analysis' local list
    \* ---- one snapshot through the analytics pipeline
    an_processed_data,      \* processed_data : spot_price and strike_data
    an_analysis,            \* _perform_analytics on the snapshot
    an_second,              \* _perform_analytics on the result's strike_data
    an_generator_pcr,       \* the generator's calculate_pcr on the same chain
    ts_result,              \* the call of get_trading_signals on the stored analysis
    \* ---- backend/app.py
    app_market_data,        \* market_data : symbol -> {data, timestamp, analysis}
    app_pc,                 \* "idle" | "loop" : position in fetch_and_process_data
    app_idx,                \* index of the loop variable `symbol` in Config.SYMBOLS
    app_cycles,             \* number of fetch_and_process_data calls started
    app_outcome,            \* history: per symbol, how this call's iteration ended
    \* ---- the point counts and the tier of generate_advanced_signal
    tp_pcr_oi,              \* pcr_oi, in hundredths
    tp_oi_ratio,            \* oi_ratio
    tp_result               \* the counts and the tier computed from them

chainVars == <<max_historical_points, current_data, historical_data, heap,
               results, chain_pc, sym_idx, cycles, clock, appended, outcome>>
concVars == <<th>>
sentVars == <<ss_pcr, ss_skew, ss_strikes, ss_score>>
painVars == <<mp_strike_data, mp_first, mp_result>>
sigVars == <<today, sg_data, sg_analysis, sg_option_type, sg_choice, sg_signal>>
runVars == <<rca_pc, rca_idx, rca_fetched, all_signals, market_data>>
anVars == <<an_processed_data, an_analysis, an_second, an_generator_pcr,
           ts_result>>
appVars == <<app_market_data, app_pc, app_idx, app_cycles, app_outcome>>
tierVars == <<tp_pcr_oi, tp_oi_ratio, tp_result>>
vars == <<chainVars, concVars, sentVars, painVars, sigVars, runVars, anVars,
          appVars, tierVars>>

----------------------------------------------------------------------------
\* Bounds of the exploration

MaxCap == 2
MaxCycles == 3
NumThreads == 2
MaxSentimentStrikes == 11
MaxPainStrikes == 3
MaxRows == 3
PadRows == 6
MaxRunSymbols == 3
MaxAnalyticsStrikes == 2
MaxExpiries == 3
MaxLevelStrikes == 6

----------------------------------------------------------------------------
\* Generic helpers

None == << >>
Some(x) == <<x>>

Min(a, b) == IF a < b THEN a ELSE b
Max(a, b) == IF a > b THEN a ELSE b

Get(d, k, dflt) == IF k \in DOMAIN d THEN d[k] ELSE dflt

Range(f) == {f[x] : x \in DOMAIN f}

RECURSIVE SumSeq(_)
SumSeq(s) == IF s = << >> THEN 0 ELSE Head(s) + SumSeq(Tail(s))

\* Exact fractions with a positive denominator
Frac(n, d) == <<n, d>>
FracGT(a, b) == a[1] * b[2] > b[1] * a[2]
FracLT(a, b) == a[1] * b[2] < b[1] * a[2]
FracEQ(a, b) == a[1] * b[2] = b[1] * a[2]
FracZero == Frac(0, 1)

----------------------------------------------------------------------------
\* backend/analytics.py : OptionAnalytics

\* the skew over the call side's open interest in place of the total
oi_skew_over_calls(strike) ==
    LET total_oi == strike.ce_oi + strike.pe_oi IN
    IF total_oi > 0
    THEN [oi_skew |-> Frac(strike.ce_oi - strike.pe_oi, Max(1, strike.ce_oi)),
          oi_skew_absolute |-> strike.ce_oi - strike.pe_oi] @@ strike
    ELSE [oi_skew |-> FracZero, oi_skew_absolute |-> 0] @@ strike

\* the absolute skew written over ce_oi as well
oi_skew_into_ce_oi(strike) ==
    LET total_oi == strike.ce_oi + strike.pe_oi IN
    IF total_oi > 0
    THEN [oi_skew |-> Frac(strike.ce_oi - strike.pe_oi, total_oi),
          oi_skew_absolute |-> strike.ce_oi - strike.pe_oi,
          ce_oi |-> strike.ce_oi - strike.pe_oi] @@ strike
    ELSE [oi_skew |-> FracZero, oi_skew_absolute |-> 0] @@ strike

\* calculate_oi_skew, the body of the loop for one strike
oi_skew_of(strike) ==
    LET total_oi == strike.ce_oi + strike.pe_oi IN
    IF total_oi > 0
    THEN [oi_skew |-> Frac(strike.ce_oi - strike.pe_oi, total_oi),
          oi_skew_absolute |-> strike.ce_oi - strike.pe_oi] @@ strike
    ELSE [oi_skew |-> FracZero, oi_skew_absolute |-> 0] @@ strike

calculate_oi_skew(strike_data) ==
    [i \in DOMAIN strike_data |-> oi_skew_of(strike_data[i])]

\* volume_oi_efficiency, the body of the loop for one strike
volume_oi_ratio_of(strike) ==
    [ce_volume_oi_ratio |-> IF strike.ce_oi > 0
                            THEN Frac(strike.ce_volume, strike.ce_oi)
                            ELSE FracZero,
     pe_volume_oi_ratio |-> IF strike.pe_oi > 0
                            THEN Frac(strike.pe_volume, strike.pe_oi)
                            ELSE FracZero] @@ strike

volume_oi_efficiency(strike_data) ==
    [i \in DOMAIN strike_data |-> volume_oi_ratio_of(strike_data[i])]

BUILDUP_THRESHOLD == 1000

\* the label with the price tested only once the threshold is passed
buildup_label_price_inside(change_oi, last_price) ==
    IF change_oi > 0
    THEN IF change_oi > BUILDUP_THRESHOLD
         THEN (IF last_price > 0 THEN "LONG" ELSE "SHORT")
         ELSE "NEUTRAL"
    ELSE "NEUTRAL"

\* identify_buildup, one side of one strike
buildup_label(change_oi, last_price) ==
    IF change_oi > 0 /\ last_price > 0
    THEN IF change_oi > BUILDUP_THRESHOLD
         THEN (IF last_price > 0 THEN "LONG" ELSE "SHORT")
         ELSE "NEUTRAL"
    ELSE "NEUTRAL"

identify_buildup(strike_data) ==
    [i \in DOMAIN strike_data |->
        [ce_buildup |-> buildup_label(strike_data[i].ce_change_oi,
                                      strike_data[i].ce_last_price),
         pe_buildup |-> buildup_label(strike_data[i].pe_change_oi,
                                      strike_data[i].pe_last_price)]
        @@ strike_data[i]]

\* calculate_pcr with each guard on the put total in place of the call total
calculate_pcr_guard_on_puts(strike_data) ==
    LET total_ce_oi == SumSeq([i \in DOMAIN strike_data |-> strike_data[i].ce_oi])
        total_pe_oi == SumSeq([i \in DOMAIN strike_data |-> strike_data[i].pe_oi])
        total_ce_volume ==
            SumSeq([i \in DOMAIN strike_data |-> strike_data[i].ce_volume])
        total_pe_volume ==
            SumSeq([i \in DOMAIN strike_data |-> strike_data[i].pe_volume])
    IN [pcr_oi |-> IF total_pe_oi > 0 THEN Frac(total_pe_oi, total_ce_oi)
                                      ELSE FracZero,
        pcr_volume |-> IF total_pe_volume > 0
                       THEN Frac(total_pe_volume, total_ce_volume)
                       ELSE FracZero,
        total_ce_oi |-> total_ce_oi,
        total_pe_oi |-> total_pe_oi]

calculate_pcr(strike_data) ==
    LET total_ce_oi == SumSeq([i \in DOMAIN strike_data |-> strike_data[i].ce_oi])
        total_pe_oi == SumSeq([i \in DOMAIN strike_data |-> strike_data[i].pe_oi])
        total_ce_volume ==
            SumSeq([i \in DOMAIN strike_data |-> strike_data[i].ce_volume])
        total_pe_volume ==
            SumSeq([i \in DOMAIN strike_data |-> strike_data[i].pe_volume])
    IN [pcr_oi |-> IF total_ce_oi > 0 THEN Frac(total_pe_oi, total_ce_oi)
                                      ELSE FracZero,
        pcr_volume |-> IF total_ce_volume > 0
                       THEN Frac(total_pe_volume, total_ce_volume)
                       ELSE FracZero,
        total_ce_oi |-> total_ce_oi,
        total_pe_oi |-> total_pe_oi]

\* find_max_pain: the inner loop, the writers' total loss at candidate `strike`
total_loss_at(strike_data, strike) ==
    SumSeq([j \in DOMAIN strike_data |->
        IF strike_data[j].strike < strike.strike
        THEN strike_data[j].ce_oi * (strike.strike - strike_data[j].strike)
        ELSE IF strike_data[j].strike > strike.strike
        THEN strike_data[j].pe_oi * (strike_data[j].strike - strike.strike)
        ELSE 0])

\* min_loss = 0 in place of float('inf')
max_pain_start_zero == [max_pain |-> None, min_loss |-> 0, is_inf |-> FALSE]

\* find_max_pain: max_pain = None, min_loss = float('inf')
max_pain_start == [max_pain |-> None, min_loss |-> 0, is_inf |-> TRUE]

\* the outer loop with `total_loss <= min_loss`: the last tied strike wins
RECURSIVE max_pain_loop_last_tie(_, _, _)
max_pain_loop_last_tie(strike_data, i, acc) ==
    IF i > Len(strike_data) THEN acc.max_pain
    ELSE LET total_loss == total_loss_at(strike_data, strike_data[i]) IN
         IF acc.is_inf \/ total_loss <= acc.min_loss
         THEN max_pain_loop_last_tie(strike_data, i + 1,
                  [max_pain |-> Some(strike_data[i].strike),
                   min_loss |-> total_loss, is_inf |-> FALSE])
         ELSE max_pain_loop_last_tie(strike_data, i + 1, acc)

\* find_max_pain: the outer loop from the i-th strike on
RECURSIVE max_pain_loop(_, _, _)
max_pain_loop(strike_data, i, acc) ==
    IF i > Len(strike_data) THEN acc.max_pain
    ELSE LET total_loss == total_loss_at(strike_data, strike_data[i]) IN
         IF acc.is_inf \/ total_loss < acc.min_loss
         THEN max_pain_loop(strike_data, i + 1,
                  [max_pain |-> Some(strike_data[i].strike),
                   min_loss |-> total_loss, is_inf |-> FALSE])
         ELSE max_pain_loop(strike_data, i + 1, acc)

find_max_pain(strike_data) == max_pain_loop(strike_data, 1, max_pain_start)

OTM_OFFSET == 200

\* the skew flags with the strikes at the offset counted as out of the money
analyze_skew_patterns_from_offset(strike_data, spot_price) ==
    LET otm_ce == {i \in DOMAIN strike_data :
                      strike_data[i].strike >= spot_price + OTM_OFFSET}
        otm_pe == {i \in DOMAIN strike_data :
                      strike_data[i].strike <= spot_price - OTM_OFFSET}
        sum_ce == SumSeq([i \in DOMAIN strike_data |->
                      IF i \in otm_ce THEN strike_data[i].ce_oi ELSE 0])
        sum_pe == SumSeq([i \in DOMAIN strike_data |->
                      IF i \in otm_pe THEN strike_data[i].pe_oi ELSE 0])
        avg_ce_oi_otm == IF otm_ce # {} THEN Frac(sum_ce, Cardinality(otm_ce))
                                        ELSE FracZero
        avg_pe_oi_otm == IF otm_pe # {} THEN Frac(sum_pe, Cardinality(otm_pe))
                                        ELSE FracZero
        \* x * 1.2 is the fraction 12 x / 10
        times12(x) == Frac(12 * x[1], 10 * x[2])
    IN [bullish_skew |-> FracGT(avg_ce_oi_otm, times12(avg_pe_oi_otm)),
        bearish_skew |-> FracGT(avg_pe_oi_otm, times12(avg_ce_oi_otm)),
        neutral_skew |-> TRUE]

analyze_skew_patterns(strike_data, spot_price) ==
    LET otm_ce == {i \in DOMAIN strike_data :
                      strike_data[i].strike > spot_price + OTM_OFFSET}
        otm_pe == {i \in DOMAIN strike_data :
                      strike_data[i].strike < spot_price - OTM_OFFSET}
        sum_ce == SumSeq([i \in DOMAIN strike_data |->
                      IF i \in otm_ce THEN strike_data[i].ce_oi ELSE 0])
        sum_pe == SumSeq([i \in DOMAIN strike_data |->
                      IF i \in otm_pe THEN strike_data[i].pe_oi ELSE 0])
        avg_ce_oi_otm == IF otm_ce # {} THEN Frac(sum_ce, Cardinality(otm_ce))
                                        ELSE FracZero
        avg_pe_oi_otm == IF otm_pe # {} THEN Frac(sum_pe, Cardinality(otm_pe))
                                        ELSE FracZero
        \* x * 1.2 is the fraction 12 x / 10
        times12(x) == Frac(12 * x[1], 10 * x[2])
    IN [bullish_skew |-> FracGT(avg_ce_oi_otm, times12(avg_pe_oi_otm)),
        bearish_skew |-> FracGT(avg_pe_oi_otm, times12(avg_ce_oi_otm)),
        neutral_skew |-> TRUE]

----------------------------------------------------------------------------
\* backend/option_chain.py : OptionChain, the pure parts

\* sorted(xs, key=..., reverse=True): a stable descending sort of <<key, x>>
\* pairs; records with equal keys keep their original order.
RECURSIVE insert_desc(_, _)
insert_desc(sorted, p) ==
    IF sorted = << >> THEN <<p>>
    ELSE IF Head(sorted)[1] >= p[1]
         THEN <<Head(sorted)>> \o insert_desc(Tail(sorted), p)
         ELSE <<p>> \o sorted

RECURSIVE sort_desc_from(_, _, _)
sort_desc_from(pairs, i, sorted) ==
    IF i > Len(pairs) THEN sorted
    ELSE sort_desc_from(pairs, i + 1, insert_desc(sorted, pairs[i]))

sorted_desc(pairs) == sort_desc_from(pairs, 1, << >>)

\* sorted(ints): ascending
sorted_asc(S) ==
    IF S = << >> THEN << >>
    ELSE LET neg == sorted_desc([i \in DOMAIN S |-> <<0 - S[i], S[i]>>])
         IN [i \in DOMAIN neg |-> neg[i][2]]

TOP_OI_STRIKES == 5
TOP_LEVELS == 3

SeqMin(s) == CHOOSE x \in Range(s) : \A y \in Range(s) : x <= y
SeqMax(s) == CHOOSE x \in Range(s) : \A y \in Range(s) : x >= y

\* the levels with `support` cut from the head of the sorted list
support_resistance_head(strike_data, spot_price) ==
    LET by_ce == sorted_desc([i \in DOMAIN strike_data |->
                                 <<strike_data[i].ce_oi, strike_data[i]>>])
        by_pe == sorted_desc([i \in DOMAIN strike_data |->
                                 <<strike_data[i].pe_oi, strike_data[i]>>])
        high_ce_oi_strikes ==
            SubSeq(by_ce, 1, Min(TOP_OI_STRIKES, Len(by_ce)))
        high_pe_oi_strikes ==
            SubSeq(by_pe, 1, Min(TOP_OI_STRIKES, Len(by_pe)))
        ce_strikes == [i \in DOMAIN high_ce_oi_strikes |->
                          high_ce_oi_strikes[i][2].strike]
        pe_strikes == [i \in DOMAIN high_pe_oi_strikes |->
                          high_pe_oi_strikes[i][2].strike]
        above(x) == x > spot_price
        below(x) == x < spot_price
        resistance_levels == SelectSeq(ce_strikes, above)
        support_levels == SelectSeq(pe_strikes, below)
        sup == sorted_asc(support_levels)
        res == sorted_asc(resistance_levels)
    IN [support |-> SubSeq(sup, 1, Min(TOP_LEVELS, Len(sup))),
        resistance |-> SubSeq(res, 1, Min(TOP_LEVELS, Len(res))),
        strong_support |-> IF support_levels # << >>
                           THEN Some(SeqMin(support_levels)) ELSE None,
        strong_resistance |-> IF resistance_levels # << >>
                              THEN Some(SeqMax(resistance_levels)) ELSE None]

_calculate_support_resistance(strike_data, spot_price) ==
    LET by_ce == sorted_desc([i \in DOMAIN strike_data |->
                                 <<strike_data[i].ce_oi, strike_data[i]>>])
        by_pe == sorted_desc([i \in DOMAIN strike_data |->
                                 <<strike_data[i].pe_oi, strike_data[i]>>])
        high_ce_oi_strikes ==
            SubSeq(by_ce, 1, Min(TOP_OI_STRIKES, Len(by_ce)))
        high_pe_oi_strikes ==
            SubSeq(by_pe, 1, Min(TOP_OI_STRIKES, Len(by_pe)))
        ce_strikes == [i \in DOMAIN high_ce_oi_strikes |->
                          high_ce_oi_strikes[i][2].strike]
        pe_strikes == [i \in DOMAIN high_pe_oi_strikes |->
                          high_pe_oi_strikes[i][2].strike]
        above(x) == x > spot_price
        below(x) == x < spot_price
        resistance_levels == SelectSeq(ce_strikes, above)
        support_levels == SelectSeq(pe_strikes, below)
        sup == sorted_asc(support_levels)
        res == sorted_asc(resistance_levels)
    IN [support |-> SubSeq(sup, Max(1, Len(sup) - TOP_LEVELS + 1), Len(sup)),
        resistance |-> SubSeq(res, 1, Min(TOP_LEVELS, Len(res))),
        strong_support |-> IF support_levels # << >>
                           THEN Some(SeqMin(support_levels)) ELSE None,
        strong_resistance |-> IF resistance_levels # << >>
                              THEN Some(SeqMax(resistance_levels)) ELSE None]

\* the PCR adjustment with each threshold counted into its row
pcr_adjustment_inclusive(pcr) ==
    IF ~FracLT(pcr, Frac(14, 10)) THEN 15
    ELSE IF ~FracLT(pcr, Frac(11, 10)) THEN 8
    ELSE IF ~FracGT(pcr, Frac(6, 10)) THEN 0 - 15
    ELSE IF ~FracGT(pcr, Frac(9, 10)) THEN 0 - 8
    ELSE 0

\* the four adjustments of _calculate_sentiment_score
pcr_adjustment(pcr) ==
    IF FracGT(pcr, Frac(14, 10)) THEN 15
    ELSE IF FracGT(pcr, Frac(11, 10)) THEN 8
    ELSE IF FracLT(pcr, Frac(6, 10)) THEN 0 - 15
    ELSE IF FracLT(pcr, Frac(9, 10)) THEN 0 - 8
    ELSE 0

skew_adjustment(skew_patterns) ==
    IF skew_patterns.bullish_skew THEN 15
    ELSE IF skew_patterns.bearish_skew THEN 0 - 15
    ELSE 0

BUILDUP_MARGIN == 5

buildup_adjustment(strike_data) ==
    LET ce_buildups == Cardinality({i \in DOMAIN strike_data :
            Get(strike_data[i], "ce_buildup", "None") = "LONG"})
        pe_buildups == Cardinality({i \in DOMAIN strike_data :
            Get(strike_data[i], "pe_buildup", "None") = "LONG"})
    IN IF ce_buildups > pe_buildups + BUILDUP_MARGIN THEN 10
       ELSE IF pe_buildups > ce_buildups + BUILDUP_MARGIN THEN 0 - 10
       ELSE 0

HIGH_EFFICIENCY_STRIKES == 10

efficiency_adjustment(strike_data) ==
    LET high_efficiency_strikes == Cardinality({i \in DOMAIN strike_data :
            \/ FracGT(Get(strike_data[i], "ce_volume_oi_ratio", FracZero),
                      Frac(5, 10))
            \/ FracGT(Get(strike_data[i], "pe_volume_oi_ratio", FracZero),
                      Frac(5, 10))})
    IN IF high_efficiency_strikes > HIGH_EFFICIENCY_STRIKES THEN 10 ELSE 0

\* max(0, min(100, score))
clamp_score(score) == Max(0, Min(100, score))

\* the score with the point ranges the comments state (PCR and skew up to 30
\* points) and no final clamp
sentiment_score_unclamped(pcr_data, skew_patterns, strike_data, spot_price) ==
    50 + 2 * pcr_adjustment(pcr_data.pcr_oi) + 2 * skew_adjustment(skew_patterns)
       + buildup_adjustment(strike_data) + efficiency_adjustment(strike_data)

_calculate_sentiment_score(pcr_data, skew_patterns, strike_data, spot_price) ==
    clamp_score(50 + pcr_adjustment(pcr_data.pcr_oi)
                   + skew_adjustment(skew_patterns)
                   + buildup_adjustment(strike_data)
                   + efficiency_adjustment(strike_data))

\* _perform_analytics raises KeyError when a key it reads is absent
perform_analytics_raises(processed_data) ==
    \/ "strike_data" \notin DOMAIN processed_data
    \/ "spot_price" \notin DOMAIN processed_data

\* _perform_analytics: everything of the 'analysis' dict but its timestamp
analysis_of(processed_data) ==
    LET spot_price == processed_data.spot_price
        strike_data == identify_buildup(volume_oi_efficiency(
                           calculate_oi_skew(processed_data.strike_data)))
        pcr_data == calculate_pcr(strike_data)
        max_pain == find_max_pain(strike_data)
        skew_patterns == analyze_skew_patterns(strike_data, spot_price)
        support_resistance ==
            _calculate_support_resistance(strike_data, spot_price)
        sentiment_score == _calculate_sentiment_score(
            pcr_data, skew_patterns, strike_data, spot_price)
    IN [pcr |-> pcr_data,
        max_pain |-> max_pain,
        skew_patterns |-> skew_patterns,
        support_resistance |-> support_resistance,
        sentiment_score |-> sentiment_score,
        strike_data |-> strike_data]

\* _perform_analytics: {**processed_data, 'analysis': {..., 'timestamp': now}}
with_analysis(processed_data, analysis, now) ==
    [analysis |-> [timestamp |-> now] @@ analysis] @@ processed_data

_perform_analytics(processed_data, now) ==
    with_analysis(processed_data, analysis_of(processed_data), now)

----------------------------------------------------------------------------
\* backend/option_chain.py : the history buffer

Symbols == <<"NIFTY", "BANKNIFTY">>
SymbolSet == Range(Symbols)

\* Object ids: one list per symbol, and one more per call that may be slicing
ObjIds == 0 .. (Len(Symbols) + NumThreads)

\* The lowest free object id
Alloc(hp) == CHOOSE i \in ObjIds : hp[i] = None /\ \A j \in ObjIds : hp[j] = None => i <= j

\* Reference counting: a list no name holds any more is freed
Collect(hp, roots) == [i \in ObjIds |-> IF i \in roots THEN hp[i] ELSE None]

\* lst[:n] for n >= 0 : the slice that keeps the front of the list
PySliceFirst(lst, n) == SubSeq(lst, 1, Min(n, Len(lst)))

\* lst[-n:] : Python slice semantics.  The start index -n counts from the end
\* when it is negative and from the front when it is not, and -0 is 0.
PySliceLast(lst, n) ==
    LET len == Len(lst)
        start == IF 0 - n < 0 THEN Max(len - n, 0) ELSE Min(0 - n, len)
    IN SubSeq(lst, start + 1, len)

\* The dict built in _update_historical_data
HistoryPoint(data, now) ==
    [timestamp |-> now,
     spot_price |-> data.spot_price,
     pcr_oi |-> data.analysis.pcr.pcr_oi,
     sentiment_score |-> data.analysis.sentiment_score,
     max_pain |-> data.analysis.max_pain]

\* The list a symbol's entry of historical_data refers to
ListOf(hd, hp, symbol) == hp[hd[symbol]][1]

\* dict.fromkeys(self.symbols, []) : one list object shared by every symbol
SharedHistoricalData == [s \in SymbolSet |-> 1]

\* __init__: self.historical_data = {symbol: [] for symbol in self.symbols},
\* a fresh list object for each symbol
InitHistoricalData == [s \in SymbolSet |->
                          CHOOSE i \in 1 .. Len(Symbols) : Symbols[i] = s]

\* __init__: self.current_data = {symbol: None for symbol in self.symbols}
InitCurrentData == [s \in SymbolSet |-> None]

\* _update_historical_data run from start to end by one caller; `pinned` are
\* the lists other callers hold.  Gives the new historical_data and heap.
_update_historical_data(hd, hp, symbol, data, cap, now, pinned) ==
    LET fresh == Alloc(hp)
        hd1 == IF symbol \notin DOMAIN hd
               THEN [s \in DOMAIN hd \cup {symbol} |->
                        IF s = symbol THEN fresh ELSE hd[s]]
               ELSE hd
        hp1 == IF symbol \notin DOMAIN hd
               THEN [hp EXCEPT ![fresh] = Some(<< >>)]
               ELSE hp
        ref == hd1[symbol]
        hp2 == [hp1 EXCEPT ![ref] = Some(Append(hp1[ref][1], HistoryPoint(data, now)))]
        kept == Alloc(hp2)
        hd3 == IF Len(hp2[ref][1]) > cap
               THEN [hd1 EXCEPT ![symbol] = kept]
               ELSE hd1
        hp3 == IF Len(hp2[ref][1]) > cap
               THEN [hp2 EXCEPT ![kept] = Some(PySliceLast(hp2[ref][1], cap))]
               ELSE hp2
    IN [historical_data |-> hd3,
        heap |-> Collect(hp3, Range(hd3) \cup pinned)]

----------------------------------------------------------------------------
\* option_signals.py : AdvancedOptionSignalGenerator
\*
\* The NSE payload is JSON: an object is a record, a key may be absent, and
\* the value of "records", "CE" and "PE" is None (JSON null) or <<object>>;
\* the empty object is the empty function << >>.  A date string is a record
\* of the day it names and the form it is written in.  A float that the code
\* rounds to two places is the integer number of hundredths.

\* What a call did: not made yet, returned a value, or raised
Pending == [done |-> FALSE, raised |-> "", value |-> None]
Ret(v) == [done |-> TRUE, raised |-> "", value |-> v]
Exc(e) == [done |-> TRUE, raised |-> e, value |-> None]

\* math.floor and math.ceil of a fraction
math_floor(x) == x[1] \div x[2]
math_ceil(x) == 0 - ((0 - x[1]) \div x[2])

\* round(x, 2) in hundredths.  Python rounds the double: a tie the double
\* holds exactly (an odd multiple of 1/8) goes to the even hundredth, as
\* here; any other tie goes to the side its double lies on, and the values
\* explored here produce none of those.
round2(x) ==
    LET n == 100 * x[1]
        q == n \div x[2]
        r == n % x[2]
    IN IF 2 * r < x[2] THEN q
       ELSE IF 2 * r > x[2] THEN q + 1
       ELSE IF q % 2 = 0 THEN q ELSE q + 1

Abs(n) == IF n < 0 THEN 0 - n ELSE n

\* the first position of x in lst: lst.index(x), 1-based; 0 is ValueError
index_of(lst, x) ==
    IF \E i \in DOMAIN lst : lst[i] = x
    THEN CHOOSE i \in DOMAIN lst :
            lst[i] = x /\ \A j \in DOMAIN lst : lst[j] = x => i <= j
    ELSE 0

\* sorted(a set of integers)
RECURSIVE sorted_set(_)
sorted_set(S) ==
    IF S = {} THEN << >>
    ELSE LET m == CHOOSE x \in S : \A y \in S : x <= y
         IN <<m>> \o sorted_set(S \ {m})

\* "05-Nov-2026" is padded, "5-Nov-2026" unpadded, anything else invalid
DateString(day, form) == [day |-> day, form |-> form]

\* item.get('expiryDate') of a row without the key equals no date string
NoDateString == DateString(0, "absent")

\* datetime.strptime(d, "%d-%b-%Y").date(): the day is read with or without
\* its leading zero, any other text raises ValueError
strptime_raises(d) == d.form \notin {"padded", "unpadded"}
strptime(d) == d.day

\* dt.strftime("%d-%b-%Y"): the day is written with its leading zero
strftime(dt) == DateString(dt, "padded")

\* the dates of expiry_dates that parse, in list order
RECURSIVE parse_dates(_)
parse_dates(expiry_dates) ==
    IF expiry_dates = << >> THEN << >>
    ELSE IF strptime_raises(Head(expiry_dates))
         THEN parse_dates(Tail(expiry_dates))
         ELSE <<strptime(Head(expiry_dates))>> \o parse_dates(Tail(expiry_dates))

\* the first date after today in place of the first date not before it
nearest_expiry_after(parsed, today_date) ==
    LET ahead == {i \in DOMAIN parsed : parsed[i] > today_date} IN
    IF ahead # {}
    THEN Some(parsed[CHOOSE i \in ahead : \A j \in ahead : i <= j])
    ELSE IF parsed # << >> THEN Some(parsed[1]) ELSE None

\* next((dt for dt in parsed if dt >= today), parsed[0] if parsed else None)
nearest_expiry(parsed, today_date) ==
    LET ahead == {i \in DOMAIN parsed : parsed[i] >= today_date} IN
    IF ahead # {}
    THEN Some(parsed[CHOOSE i \in ahead : \A j \in ahead : i <= j])
    ELSE IF parsed # << >> THEN Some(parsed[1]) ELSE None

\* int(item.get('strikePrice', 0))
strike_of(item) == Get(item, "strikePrice", 0)

\* min(strikes, key=lambda x: abs(x - current_price)): the first of the
\* nearest strikes
nearest_strike(strikes, current_price) ==
    LET dist(i) == Abs(strikes[i] * current_price[2] - current_price[1])
        i0 == CHOOSE i \in DOMAIN strikes :
                 /\ \A j \in DOMAIN strikes : dist(i) <= dist(j)
                 /\ \A j \in DOMAIN strikes : dist(j) = dist(i) => i <= j
    IN strikes[i0]

ATM_WINDOW == 5

analyze_atm_strikes(data, symbol, today_date) ==
    IF data = None \/ data[1] = << >> \/ "records" \notin DOMAIN data[1]
    THEN Ret(None)
    ELSE IF data[1].records = None
    THEN Exc("AttributeError")
    ELSE
    LET records == data[1].records[1]
        current_price == Get(records, "underlyingValue", None)
        expiry_dates == Get(records, "expiryDates", << >>)
    IN
    IF current_price = None \/ expiry_dates = << >>
    THEN Ret(None)
    ELSE
    LET parsed == sorted_asc(parse_dates(expiry_dates))
        expiry_dt == nearest_expiry(parsed, today_date)
        current_expiry == IF expiry_dt # None THEN strftime(expiry_dt[1])
                          ELSE expiry_dates[1]
        option_rows == SelectSeq(Get(records, "data", << >>),
                           LAMBDA item :
                               Get(item, "expiryDate", NoDateString)
                                   = current_expiry)
    IN
    IF option_rows = << >>
    THEN Ret(None)
    ELSE
    LET strikes == sorted_set({strike_of(option_rows[i]) :
                                  i \in DOMAIN option_rows})
    IN
    IF strikes = << >>
    THEN Ret(None)
    ELSE
    LET atm_strike == nearest_strike(strikes, current_price)
        atm_index == index_of(strikes, atm_strike) - 1
        start_idx == Max(0, atm_index - ATM_WINDOW)
        end_idx == Min(Len(strikes), atm_index + ATM_WINDOW + 1)
        relevant_strikes == SubSeq(strikes, start_idx + 1, end_idx)
        relevant_rows == SelectSeq(option_rows,
                             LAMBDA r : strike_of(r) \in Range(relevant_strikes))
    IN Ret(Some([symbol |-> symbol,
                 current_price |-> current_price,
                 atm_strike |-> atm_strike,
                 expiry |-> current_expiry,
                 strikes_analyzed |-> relevant_strikes,
                 data |-> relevant_rows,
                 all_data |-> option_rows]))

\* `if ce:` : the side is there, not null and not the empty object
truthy(side) == side # None /\ side[1] # << >>

\* calculate_pcr, one of the four totals
total_of(data_rows, key, field) ==
    SumSeq([i \in DOMAIN data_rows |->
        LET side == Get(data_rows[i], key, None) IN
        IF truthy(side) THEN Get(side[1], field, 0) ELSE 0])

\* calculate_pcr of option_signals.py: (pcr_oi, pcr_vol), each rounded
generator_calculate_pcr(data_rows) ==
    LET total_ce_oi == total_of(data_rows, "CE", "openInterest")
        total_pe_oi == total_of(data_rows, "PE", "openInterest")
        total_ce_vol == total_of(data_rows, "CE", "totalTradedVolume")
        total_pe_vol == total_of(data_rows, "PE", "totalTradedVolume")
        pcr_oi == IF total_ce_oi > 0 THEN Frac(total_pe_oi, total_ce_oi)
                  ELSE FracZero
        pcr_vol == IF total_ce_vol > 0 THEN Frac(total_pe_vol, total_ce_vol)
                   ELSE FracZero
    IN <<round2(pcr_oi), round2(pcr_vol)>>

\* the reasons with the volume flag ahead of the buildup reason
get_selection_reason_volume_first(candidate) ==
    LET reason(label) == [label |-> label, steps |-> 0]
        coi == Get(candidate, "coi", 0)
        iv == candidate.iv
    IN (IF candidate.is_atm THEN <<reason("ATM Strike")>>
        ELSE IF candidate.is_near_atm THEN <<reason("Near-ATM")>>
        ELSE <<[label |-> "steps from ATM",
                steps |-> candidate.distance_from_atm]>>)
       \o (IF Get(candidate, "volume", 0) > 1000
           THEN <<reason("High Volume")>> ELSE << >>)
       \o (IF coi > 0 THEN <<reason("Fresh Long Buildup")>>
           ELSE IF coi < 0 THEN <<reason("Long Unwinding")>>
           ELSE << >>)
       \o (IF iv # 0 /\ iv < 20 THEN <<reason("Low IV")>> ELSE << >>)

\* get_selection_reason: the reasons, before " | ".join
get_selection_reason(candidate) ==
    LET reason(label) == [label |-> label, steps |-> 0]
        coi == Get(candidate, "coi", 0)
        iv == candidate.iv
    IN (IF candidate.is_atm THEN <<reason("ATM Strike")>>
        ELSE IF candidate.is_near_atm THEN <<reason("Near-ATM")>>
        ELSE <<[label |-> "steps from ATM",
                steps |-> candidate.distance_from_atm]>>)
       \o (IF coi > 0 THEN <<reason("Fresh Long Buildup")>>
           ELSE IF coi < 0 THEN <<reason("Long Unwinding")>>
           ELSE << >>)
       \o (IF Get(candidate, "volume", 0) > 1000
           THEN <<reason("High Volume")>> ELSE << >>)
       \o (IF iv # 0 /\ iv < 20 THEN <<reason("Low IV")>> ELSE << >>)

\* the side every row is tested on against the price, with the sides
\* exchanged
eligible_swapped(option_type, strike, current_price) ==
    IF option_type = "CE"
    THEN ~(strike > math_ceil(current_price))
    ELSE ~(strike < math_floor(current_price))

\* select_optimal_strike: ATM or OTM CE, ATM or OTM PE
eligible(option_type, strike, current_price) ==
    IF option_type = "CE"
    THEN ~(strike < math_floor(current_price))
    ELSE ~(strike > math_ceil(current_price))

\* r.get of the side the caller did not ask for
other_side_of(r, option_type) ==
    Get(r, IF option_type = "CE" THEN "PE" ELSE "CE", None)

\* side = r.get('CE') or r.get('PE')
side_of(r, option_type) ==
    Get(r, IF option_type = "CE" THEN "CE" ELSE "PE", None)

\* the score of a candidate before rounding, in 1/5000
raw_score(c) ==
      (IF c.is_atm THEN 300000
       ELSE IF c.is_near_atm THEN 250000
       ELSE Max(0, 200000 - c.distance_from_atm * 25000))
    + Min(c.oi, 50000)
    + (IF c.coi # 0 THEN 10 * c.coi ELSE 0)
    + Min(5 * c.volume, 15000)
    + Max(0, 25000 - 1000 * c.iv)
    + (IF c.change_percentage > 0 THEN 10000 ELSE 0)

\* the candidate of a row that passed the filters
candidate_of(r, side, atm, strikes_list) ==
    LET strike == strike_of(r)
        dist == Abs(index_of(strikes_list, strike) - index_of(strikes_list, atm))
    IN [strike |-> strike,
        distance_from_atm |-> dist,
        is_atm |-> strike = atm,
        is_near_atm |-> dist <= 1,
        oi |-> Get(side, "openInterest", 0),
        coi |-> Get(side, "changeinOpenInterest", 0),
        volume |-> Get(side, "totalTradedVolume", 0),
        iv |-> Get(side, "impliedVolatility", 0),
        ltp |-> Get(side, "lastPrice", 0),
        change |-> Get(side, "change", 0),
        change_percentage |-> Get(side, "pChange", 0),
        delta |-> Get(side, "delta", 0),
        gamma |-> Get(side, "gamma", 0)]

\* the scoring loop, for one candidate
scored(c) ==
    LET c1 == [score |-> round2(Frac(raw_score(c), 5000))] @@ c
    IN [selection_reason |-> get_selection_reason(c1)] @@ c1

\* the sort key without the volume
key_ge_score_only(a, b) == a.score >= b.score

\* candidates.sort(key=lambda x: (x['score'], x['volume']), reverse=True):
\* stable, candidates with equal keys keep their order
key_ge(a, b) ==
    \/ a.score > b.score
    \/ a.score = b.score /\ a.volume >= b.volume

RECURSIVE insert_candidate(_, _)
insert_candidate(sorted, c) ==
    IF sorted = << >> THEN <<c>>
    ELSE IF key_ge(Head(sorted), c)
         THEN <<Head(sorted)>> \o insert_candidate(Tail(sorted), c)
         ELSE <<c>> \o sorted

RECURSIVE sort_candidates(_, _, _)
sort_candidates(candidates, i, sorted) ==
    IF i > Len(candidates) THEN sorted
    ELSE sort_candidates(candidates, i + 1,
                         insert_candidate(sorted, candidates[i]))

\* the rows of the window that become candidates
candidate_rows(analysis, option_type) ==
    SelectSeq(analysis.data,
        LAMBDA r :
            /\ index_of(analysis.strikes_analyzed, strike_of(r)) # 0
            /\ index_of(analysis.strikes_analyzed, analysis.atm_strike) # 0
            /\ truthy(side_of(r, option_type))
            /\ eligible(option_type, strike_of(r), analysis.current_price))

select_optimal_strike(analysis_data, option_type) ==
    IF analysis_data = None THEN None
    ELSE
    LET analysis == analysis_data[1]
        rows == candidate_rows(analysis, option_type)
        candidates == [i \in DOMAIN rows |->
                          candidate_of(rows[i], side_of(rows[i], option_type)[1],
                                       analysis.atm_strike,
                                       analysis.strikes_analyzed)]
    IN IF candidates = << >> THEN None
       ELSE LET sorted == sort_candidates(
                              [i \in DOMAIN candidates |-> scored(candidates[i])],
                              1, << >>)
            IN Some(sorted[1])

\* the bullish count with two points for the ratio
bullish_points_ratio_two(pcr_oi, oi_ratio) ==
      (IF pcr_oi > 150 THEN 2 ELSE IF pcr_oi > 120 THEN 1 ELSE 0)
    + (IF FracGT(oi_ratio, Frac(13, 10)) THEN 2 ELSE 0)

\* generate_advanced_signal: the two point counts
bullish_points(pcr_oi, oi_ratio) ==
      (IF pcr_oi > 150 THEN 2 ELSE IF pcr_oi > 120 THEN 1 ELSE 0)
    + (IF FracGT(oi_ratio, Frac(13, 10)) THEN 1 ELSE 0)

bearish_points(pcr_oi, oi_ratio) ==
      (IF pcr_oi < 60 THEN 2 ELSE IF pcr_oi < 80 THEN 1 ELSE 0)
    + (IF FracGT(oi_ratio, Frac(13, 10)) THEN 0
       ELSE IF FracLT(oi_ratio, Frac(7, 10)) THEN 1 ELSE 0)

\* the tier with the strong tiers left out
signal_tier_no_strong(bullish, bearish) ==
    IF bullish >= 2
    THEN Some([signal |-> "BUY", option_type |-> "CE", tone |-> "Bullish"])
    ELSE IF bearish >= 2
    THEN Some([signal |-> "SELL", option_type |-> "PE", tone |-> "Bearish"])
    ELSE None

\* generate_advanced_signal: the tier, None when no threshold is reached
signal_tier(bullish, bearish) ==
    IF bullish >= 3
    THEN Some([signal |-> "STRONG BUY", option_type |-> "CE", tone |-> "Strong Bullish"])
    ELSE IF bullish >= 2
    THEN Some([signal |-> "BUY", option_type |-> "CE", tone |-> "Bullish"])
    ELSE IF bearish >= 3
    THEN Some([signal |-> "STRONG SELL", option_type |-> "PE", tone |-> "Strong Bearish"])
    ELSE IF bearish >= 2
    THEN Some([signal |-> "SELL", option_type |-> "PE", tone |-> "Bearish"])
    ELSE None

\* sum(int(r.get(key, {}).get('openInterest', 0) or 0) for r in data):
\* a null side has no .get
window_oi_raises(data, key) ==
    \E i \in DOMAIN data : Get(data[i], key, Some(<< >>)) = None

window_oi(data, key) ==
    SumSeq([i \in DOMAIN data |->
               Get(Get(data[i], key, Some(<< >>))[1], "openInterest", 0)])

generate_advanced_signal(analysis_data, now) ==
    IF analysis_data = None THEN Ret(None)
    ELSE
    LET analysis == analysis_data[1]
        pcr == generator_calculate_pcr(analysis.all_data)
    IN
    IF window_oi_raises(analysis.data, "CE") \/ window_oi_raises(analysis.data, "PE")
    THEN Exc("AttributeError")
    ELSE
    LET total_ce_oi == window_oi(analysis.data, "CE")
        total_pe_oi == window_oi(analysis.data, "PE")
        oi_ratio == IF total_ce_oi > 0 THEN Frac(total_pe_oi, total_ce_oi)
                    ELSE FracZero
        tier == signal_tier(bullish_points(pcr[1], oi_ratio),
                            bearish_points(pcr[1], oi_ratio))
        strike_choice == IF tier = None THEN None
                         ELSE select_optimal_strike(analysis_data,
                                                    tier[1].option_type)
    IN
    IF tier = None \/ strike_choice = None THEN Ret(None)
    ELSE Ret(Some(
        [symbol |-> analysis.symbol,
         signal |-> tier[1].signal,
         option_type |-> tier[1].option_type,
         strike_price |-> strike_choice[1].strike,
         current_price |-> analysis.current_price,
         atm_strike |-> analysis.atm_strike,
         distance_from_atm |-> strike_choice[1].distance_from_atm,
         option_ltp |-> strike_choice[1].ltp,
         option_change |-> strike_choice[1].change,
         option_change_percentage |-> strike_choice[1].change_percentage,
         oi |-> strike_choice[1].oi,
         coi |-> strike_choice[1].coi,
         volume |-> strike_choice[1].volume,
         iv |-> strike_choice[1].iv,
         delta |-> Get(strike_choice[1], "delta", 0),
         gamma |-> Get(strike_choice[1], "gamma", 0),
         pcr_oi |-> pcr[1],
         pcr_volume |-> pcr[2],
         oi_ratio |-> round2(oi_ratio),
         strike_score |-> strike_choice[1].score,
         selection_reason |-> strike_choice[1].selection_reason,
         signal_reason |-> [tone |-> tier[1].tone, pcr |-> pcr[1],
                            oi_ratio |-> round2(oi_ratio)],
         timestamp |-> now]))

----------------------------------------------------------------------------
\* The parts of the model a specification does not run stand still in it

NotRun == [done |-> FALSE, value |-> None]
Returned(v) == [done |-> TRUE, value |-> v]

ConcIdle == th = [t \in 1 .. NumThreads |->
                     [pc |-> "idle", ref |-> 0 - 1, over |-> FALSE]]

SentIdle ==
    /\ ss_pcr = FracZero
    /\ ss_skew = [bullish_skew |-> FALSE, bearish_skew |-> FALSE,
                  neutral_skew |-> TRUE]
    /\ ss_strikes = << >>
    /\ ss_score = None

PainIdle ==
    /\ mp_strike_data = << >>
    /\ mp_first = NotRun
    /\ mp_result = NotRun

\* The two expiries of the payloads, and the days the analysis may run on
NearDate == DateString(2, "padded")
NearDateUnpadded == DateString(2, "unpadded")
FarDate == DateString(3, "padded")
Days == {NearDate.day, FarDate.day}

SigCallsIdle ==
    /\ sg_data = None
    /\ sg_analysis = Pending
    /\ sg_option_type = "CE"
    /\ sg_choice = Pending
    /\ sg_signal = Pending

SigIdle == today = NearDate.day /\ SigCallsIdle

RunIdle ==
    /\ rca_pc = "idle"
    /\ rca_idx = 1
    /\ rca_fetched = << >>
    /\ all_signals = << >>
    /\ market_data = << >>

AnIdle ==
    /\ an_processed_data = [spot_price |-> 0, strike_data |-> << >>]
    /\ an_analysis = NotRun
    /\ an_second = NotRun
    /\ an_generator_pcr = NotRun
    /\ ts_result = Pending

----------------------------------------------------------------------------
\* backend/option_chain.py : fetch_all_chains, one action per way an
\* iteration of its loop can go

\* One raw strike row as the processor hands it on
Raw(strike, ce_oi, pe_oi, ce_volume, pe_volume, ce_change_oi, pe_change_oi) ==
    [strike |-> strike, ce_oi |-> ce_oi, pe_oi |-> pe_oi,
     ce_volume |-> ce_volume, pe_volume |-> pe_volume,
     ce_change_oi |-> ce_change_oi, pe_change_oi |-> pe_change_oi,
     ce_last_price |-> 10, pe_last_price |-> 10]

\* Processed snapshots a fetch may deliver: a put-heavy chain, a call-heavy
\* chain, and a dict that lacks its strike table.
PutHeavySnapshot ==
    [spot_price |-> 400,
     strike_data |-> <<Raw(100, 10, 900, 5, 500, 0, 1500),
                       Raw(300, 50, 400, 10, 300, 0, 1200),
                       Raw(400, 200, 300, 150, 200, 500, 500),
                       Raw(500, 100, 20, 40, 5, 1100, 0),
                       Raw(700, 20, 0, 1, 0, 0, 0)>>]

CallHeavySnapshot ==
    [spot_price |-> 300,
     strike_data |-> <<Raw(200, 100, 50, 10, 10, 0, 0),
                       Raw(300, 500, 100, 300, 20, 2000, 0),
                       Raw(600, 900, 0, 100, 0, 1500, 0)>>]

MalformedSnapshot == [spot_price |-> 400]

ProcessedInputs == {PutHeavySnapshot, CallHeavySnapshot, MalformedSnapshot}

\* analysis_of on every input that does not raise, evaluated once
AnalysisTable == [pd \in {p \in ProcessedInputs : ~perform_analytics_raises(p)} |->
                     analysis_of(pd)]

NoOutcome == [s \in SymbolSet |-> "pending"]

DEFAULT_MAX_HISTORICAL_POINTS == 100

\* __init__, with self.max_historical_points set to `cap`
ChainConstructed(cap) ==
    /\ max_historical_points = cap
    /\ current_data = InitCurrentData
    /\ historical_data = InitHistoricalData
    /\ heap = [i \in ObjIds |-> IF i \in Range(InitHistoricalData)
                                THEN Some(<< >>) ELSE None]
    /\ results = << >>
    /\ chain_pc = "idle"
    /\ sym_idx = 1
    /\ cycles = 0
    /\ clock = 1
    /\ appended = [s \in SymbolSet |-> << >>]
    /\ outcome = NoOutcome

\* The analyzer as configured with a capacity of 0 .. MaxCap
ChainInit == \E cap \in 0 .. MaxCap : ChainConstructed(cap)

\* The analyzer as the module constructs it, before any cycle
ChainIdle == ChainConstructed(DEFAULT_MAX_HISTORICAL_POINTS)

\* no point count under way
TierIdle ==
    /\ tp_pcr_oi = 0
    /\ tp_oi_ratio = FracZero
    /\ tp_result = NotRun

\* app.py as the module leaves it: market_data with an empty entry per
\* symbol, fetch_and_process_data not running
EmptyEntry == [data |-> None, timestamp |-> None, analysis |-> None]
AppIdle ==
    /\ app_market_data = [s \in SymbolSet |-> EmptyEntry]
    /\ app_pc = "idle"
    /\ app_idx = 1
    /\ app_cycles = 0
    /\ app_outcome = NoOutcome

\* What fetch_all_chains never touches
ChainFrame == UNCHANGED <<concVars, sentVars, painVars, sigVars, runVars,
                          anVars, appVars, tierVars>>

\* results = {} and the loop is entered
StartFetchAll ==
    /\ chain_pc = "idle"
    /\ app_pc = "idle"
    /\ ChainFrame
    /\ cycles + app_cycles < MaxCycles
    /\ chain_pc' = "loop"
    /\ sym_idx' = 1
    /\ results' = << >>
    /\ cycles' = cycles + 1
    /\ outcome' = NoOutcome
    /\ UNCHANGED <<max_historical_points, current_data, historical_data, heap,
                   clock, appended>>

InLoop == chain_pc = "loop" /\ sym_idx <= Len(Symbols)

\* `continue`: the iteration leaves every dict alone
SkipSymbol(why) ==
    /\ InLoop
    /\ ChainFrame
    /\ sym_idx' = sym_idx + 1
    /\ outcome' = [outcome EXCEPT ![Symbols[sym_idx]] = why]
    /\ UNCHANGED <<max_historical_points, current_data, historical_data, heap,
                   results, chain_pc, cycles, clock, appended>>

\* if not raw_data: continue
FetchNoData == SkipSymbol("no_data")

\* if not processed_data: continue
ProcessFailed == SkipSymbol("process_failed")

\* the handler storing its None in current_data as well
HandleException_clears_current ==
    /\ ChainFrame
    /\ sym_idx' = sym_idx + 1
    /\ results' = (Symbols[sym_idx] :> None) @@ results
    /\ current_data' = [current_data EXCEPT ![Symbols[sym_idx]] = None]
    /\ outcome' = [outcome EXCEPT ![Symbols[sym_idx]] = "raised"]
    /\ UNCHANGED <<max_historical_points, historical_data, heap,
                   chain_pc, cycles, clock, appended>>

\* except Exception: results[symbol] = None
HandleException ==
    /\ ChainFrame
    /\ sym_idx' = sym_idx + 1
    /\ results' = (Symbols[sym_idx] :> None) @@ results
    /\ outcome' = [outcome EXCEPT ![Symbols[sym_idx]] = "raised"]
    /\ UNCHANGED <<max_historical_points, current_data, historical_data, heap,
                   chain_pc, cycles, clock, appended>>

\* the fetcher or the processor raises
FetchRaises ==
    /\ InLoop
    /\ HandleException

\* a processed snapshot arrives: analytics, store, history append
AnalyseSymbol ==
    /\ InLoop
    /\ ChainFrame
    /\ \E processed_data \in ProcessedInputs :
        IF perform_analytics_raises(processed_data)
        THEN HandleException
        ELSE LET symbol == Symbols[sym_idx]
                 analyzed_data == with_analysis(processed_data,
                                     AnalysisTable[processed_data], clock)
                 upd == _update_historical_data(historical_data, heap, symbol,
                            analyzed_data, max_historical_points, clock, {})
             IN /\ current_data' = [current_data EXCEPT ![symbol] = Some(analyzed_data)]
                /\ historical_data' = upd.historical_data
                /\ heap' = upd.heap
                /\ results' = (symbol :> Some(analyzed_data)) @@ results
                /\ appended' = [appended EXCEPT ![symbol] =
                                   Append(@, HistoryPoint(analyzed_data, clock))]
                /\ outcome' = [outcome EXCEPT ![symbol] = "completed"]
                /\ clock' = clock + 1
                /\ sym_idx' = sym_idx + 1
                /\ UNCHANGED <<max_historical_points, chain_pc, cycles>>

\* return results
ReturnResults ==
    /\ chain_pc = "loop"
    /\ ChainFrame
    /\ sym_idx > Len(Symbols)
    /\ chain_pc' = "idle"
    /\ UNCHANGED <<max_historical_points, current_data, historical_data, heap,
                   results, sym_idx, cycles, clock, appended, outcome>>

----------------------------------------------------------------------------
\* Two analysis passes for one symbol run _update_historical_data at the same
\* time (threads of the scheduler's pool share the module's singleton
\* analyzer, which holds no lock).  One action per step of the interpreter
\* at which the other thread may run.

Threads == 1 .. NumThreads
ConcSymbol == Symbols[1]
NoRef == 0 - 1

\* The analysed data each pass hands to _update_historical_data
PassData(t) ==
    LET pd == IF t % 2 = 1 THEN PutHeavySnapshot ELSE CallHeavySnapshot
    IN with_analysis(pd, AnalysisTable[pd], MaxCap + t)

\* The buffer as earlier, serialized passes left it: k points, oldest first
Prefilled(k) ==
    [i \in 1 .. k |->
        HistoryPoint(with_analysis(PutHeavySnapshot,
                                   AnalysisTable[PutHeavySnapshot], i), i)]

ThreadRoots == {th[t].ref : t \in Threads} \ {NoRef}

ConcInit ==
    /\ max_historical_points \in 1 .. MaxCap
    /\ historical_data = InitHistoricalData
    /\ \E k \in 0 .. max_historical_points :
        /\ heap = [i \in ObjIds |->
                      IF i = InitHistoricalData[ConcSymbol] THEN Some(Prefilled(k))
                      ELSE IF i \in Range(InitHistoricalData) THEN Some(<< >>)
                      ELSE None]
        /\ appended = [s \in SymbolSet |->
                          IF s = ConcSymbol THEN Prefilled(k) ELSE << >>]
    /\ th = [t \in Threads |-> [pc |-> "check_key", ref |-> NoRef, over |-> FALSE]]
    /\ SentIdle
    /\ PainIdle
    /\ AnIdle
    /\ AppIdle
    /\ TierIdle
    /\ SigIdle
    /\ RunIdle
    /\ current_data = InitCurrentData
    /\ results = << >>
    /\ chain_pc = "idle"
    /\ sym_idx = 1
    /\ cycles = 0
    /\ clock = 1
    /\ outcome = NoOutcome

\* What _update_historical_data never touches
ConcFrame == UNCHANGED <<max_historical_points, current_data, results, chain_pc,
                         sym_idx, cycles, clock, outcome, sentVars, painVars,
                         sigVars, runVars, anVars, appVars, tierVars>>

\* A thread moves on; lists that no name holds any more are freed
ThreadStep(t, pc, ref, over, hd, hp) ==
    LET th1 == [th EXCEPT ![t] = [pc |-> pc, ref |-> ref, over |-> over]]
        roots == Range(hd) \cup ({th1[u].ref : u \in Threads} \ {NoRef})
    IN /\ th' = th1
       /\ historical_data' = hd
       /\ heap' = Collect(hp, roots)
       /\ ConcFrame

\* if symbol not in self.historical_data: (the key is there)
ThCheckKey(t) ==
    /\ th[t].pc = "check_key"
    /\ ConcSymbol \in DOMAIN historical_data
    /\ ThreadStep(t, "lookup", NoRef, FALSE, historical_data, heap)
    /\ UNCHANGED appended

\* self.historical_data[symbol] is evaluated: the list object
ThLookup(t) ==
    /\ th[t].pc = "lookup"
    /\ ThreadStep(t, "append", historical_data[ConcSymbol], FALSE,
                  historical_data, heap)
    /\ UNCHANGED appended

\* .append({...}) on the object looked up
ThAppend(t) ==
    /\ th[t].pc = "append"
    /\ LET point == HistoryPoint(PassData(t), MaxCap + t) IN
        /\ ThreadStep(t, "load_len", NoRef, FALSE, historical_data,
                      [heap EXCEPT ![th[t].ref] = Some(Append(@[1], point))])
        /\ appended' = [appended EXCEPT ![ConcSymbol] = Append(@, point)]

\* len(self.historical_data[symbol]) : the subscript
ThLoadLen(t) ==
    /\ th[t].pc = "load_len"
    /\ ThreadStep(t, "compare", historical_data[ConcSymbol], FALSE,
                  historical_data, heap)
    /\ UNCHANGED appended

\* len(...) > self.max_historical_points
ThCompare(t) ==
    /\ th[t].pc = "compare"
    /\ LET over == Len(heap[th[t].ref][1]) > max_historical_points IN
        ThreadStep(t, IF over THEN "load_slice" ELSE "done", NoRef, over,
                   historical_data, heap)
    /\ UNCHANGED appended

\* self.historical_data[symbol][-N:] : the subscript
ThLoadSlice(t) ==
    /\ th[t].pc = "load_slice"
    /\ ThreadStep(t, "slice", historical_data[ConcSymbol], TRUE,
                  historical_data, heap)
    /\ UNCHANGED appended

\* [-N:] builds a new list object from the one loaded
ThSlice(t) ==
    /\ th[t].pc = "slice"
    /\ LET kept == Alloc(heap) IN
        ThreadStep(t, "store", kept, TRUE, historical_data,
                   [heap EXCEPT ![kept] =
                       Some(PySliceLast(heap[th[t].ref][1], max_historical_points))])
    /\ UNCHANGED appended

\* self.historical_data[symbol] = <the new list>
ThStore(t) ==
    /\ th[t].pc = "store"
    /\ ThreadStep(t, "done", NoRef, TRUE,
                  [historical_data EXCEPT ![ConcSymbol] = th[t].ref], heap)
    /\ UNCHANGED appended

ConcNext ==
    \/ \E t \in Threads : ThCheckKey(t)
    \/ \E t \in Threads : ThLookup(t)
    \/ \E t \in Threads : ThAppend(t)
    \/ \E t \in Threads : ThLoadLen(t)
    \/ \E t \in Threads : ThCompare(t)
    \/ \E t \in Threads : ThLoadSlice(t)
    \/ \E t \in Threads : ThSlice(t)
    \/ \E t \in Threads : ThStore(t)

----------------------------------------------------------------------------
\* backend/option_chain.py : _calculate_sentiment_score called on its own,
\* with inputs of every shape it reads

\* A strike record with only the keys the score reads.  `strike` numbers the
\* kind of record; the list is built in ascending `strike` order.
SentimentStrikeKinds ==
    << [strike |-> 1, ce_buildup |-> "LONG", pe_buildup |-> "NEUTRAL",
        ce_volume_oi_ratio |-> Frac(6, 10), pe_volume_oi_ratio |-> FracZero],
       [strike |-> 2, ce_buildup |-> "NEUTRAL", pe_buildup |-> "LONG",
        ce_volume_oi_ratio |-> Frac(5, 10), pe_volume_oi_ratio |-> Frac(1, 10)],
       [strike |-> 3, ce_buildup |-> "SHORT", pe_buildup |-> "SHORT",
        ce_volume_oi_ratio |-> FracZero, pe_volume_oi_ratio |-> Frac(9000, 1)],
       [strike |-> 4] >>

\* pcr_oi on both sides of every threshold, at the thresholds, and extreme
SentimentPcrValues ==
    {Frac(0 - 5, 1), FracZero, Frac(59, 100), Frac(6, 10), Frac(89, 100),
     Frac(9, 10), Frac(11, 10), Frac(111, 100), Frac(14, 10), Frac(141, 100),
     Frac(1000000, 1)}

SentInit ==
    /\ ss_pcr \in SentimentPcrValues
    /\ ss_skew \in [bullish_skew : BOOLEAN, bearish_skew : BOOLEAN,
                    neutral_skew : {TRUE}]
    /\ ss_strikes = << >>
    /\ ss_score = None
    /\ ChainIdle
    /\ ConcIdle
    /\ PainIdle
    /\ AnIdle
    /\ AppIdle
    /\ TierIdle
    /\ SigIdle
    /\ RunIdle

SentFrame == UNCHANGED <<chainVars, concVars, painVars, sigVars, runVars,
                         anVars, appVars, tierVars>>

\* the caller's strike_data grows by one record
AddSentimentStrike ==
    /\ ss_score = None
    /\ Len(ss_strikes) < MaxSentimentStrikes
    /\ \E k \in DOMAIN SentimentStrikeKinds :
        /\ IF ss_strikes = << >> THEN TRUE
           ELSE ss_strikes[Len(ss_strikes)].strike <= SentimentStrikeKinds[k].strike
        /\ ss_strikes' = Append(ss_strikes, SentimentStrikeKinds[k])
    /\ UNCHANGED <<ss_pcr, ss_skew, ss_score>>
    /\ SentFrame

\* the call
ScoreSentiment ==
    /\ ss_score = None
    /\ ss_score' = Some(_calculate_sentiment_score(
                            [pcr_oi |-> ss_pcr], ss_skew, ss_strikes, 0))
    /\ UNCHANGED <<ss_pcr, ss_skew, ss_strikes>>
    /\ SentFrame

SentNext ==
    \/ AddSentimentStrike
    \/ ScoreSentiment

----------------------------------------------------------------------------
\* backend/analytics.py : find_max_pain called on strike lists in any order

\* Strikes 100, 200, ... and small open interests, zero included
PainStrikes == {100 * k : k \in 1 .. MaxPainStrikes}
PainOI == {0, 1, 2}

PainRecords == [strike : PainStrikes, ce_oi : PainOI, pe_oi : PainOI]

PainInit ==
    /\ mp_strike_data = << >>
    /\ mp_first = NotRun
    /\ mp_result = NotRun
    /\ ChainIdle
    /\ ConcIdle
    /\ SentIdle
    /\ SigIdle
    /\ RunIdle
    /\ AnIdle
    /\ AppIdle
    /\ TierIdle

PainFrame == UNCHANGED <<chainVars, concVars, sentVars, sigVars, runVars,
                         anVars, appVars, tierVars>>

\* the caller's list gets one more strike, before the first call
AddPainStrike ==
    /\ ~mp_first.done
    /\ \E r \in PainRecords :
        /\ \A i \in DOMAIN mp_strike_data : mp_strike_data[i].strike # r.strike
        /\ mp_strike_data' = Append(mp_strike_data, r)
    /\ UNCHANGED <<mp_first, mp_result>>
    /\ PainFrame

\* the call
FindMaxPain ==
    /\ ~mp_result.done
    /\ mp_result' = Returned(find_max_pain(mp_strike_data))
    /\ mp_first' = IF mp_first.done THEN mp_first
                   ELSE Returned(find_max_pain(mp_strike_data))
    /\ UNCHANGED mp_strike_data
    /\ PainFrame

\* the caller passes the same records in another order: two neighbours swap
ReorderStrikes ==
    /\ mp_result.done
    /\ \E i \in 1 .. (Len(mp_strike_data) - 1) :
        mp_strike_data' = [mp_strike_data EXCEPT ![i] = mp_strike_data[i + 1],
                                                 ![i + 1] = mp_strike_data[i]]
    /\ mp_result' = NotRun
    /\ UNCHANGED mp_first
    /\ PainFrame

PainNext ==
    \/ AddPainStrike
    \/ FindMaxPain
    \/ ReorderStrikes

----------------------------------------------------------------------------
\* option_signals.py : one payload through analyze_atm_strikes,
\* select_optimal_strike and generate_advanced_signal

\* The expiryDates of a payload with a chain: unsorted, the near one written
\* without its leading zero
ChainExpiryDates == <<FarDate, NearDateUnpadded>>

\* One side of a row.  Every field is a whole number, and open interest,
\* change in open interest and volume are multiples of 50, 5 and 10, so a
\* score has at most two decimals before it is rounded.
HeavySide ==
    [openInterest |-> 3000, changeinOpenInterest |-> 500,
     totalTradedVolume |-> 2000, impliedVolatility |-> 10,
     lastPrice |-> 10, change |-> 1, pChange |-> 5]
LightSide ==
    [openInterest |-> 1000, changeinOpenInterest |-> 0 - 500,
     totalTradedVolume |-> 500, impliedVolatility |-> 30,
     lastPrice |-> 5, change |-> 0 - 1, pChange |-> 0 - 5]

\* A side nobody holds or trades
NoInterestSide ==
    [openInterest |-> 0, changeinOpenInterest |-> 0,
     totalTradedVolume |-> 0, impliedVolatility |-> 30,
     lastPrice |-> 5, change |-> 0, pChange |-> 0]

\* A side the exchange quotes no implied volatility for
UnquotedSide ==
    [openInterest |-> 1000, changeinOpenInterest |-> 0,
     totalTradedVolume |-> 500, impliedVolatility |-> 0,
     lastPrice |-> 5, change |-> 0, pChange |-> 0]

Row(strike, expiry) == [strikePrice |-> strike, expiryDate |-> expiry]

\* The rows a payload may carry at a strike
RowKinds(strike) ==
    {[CE |-> Some(LightSide), PE |-> Some(HeavySide)] @@ Row(strike, NearDate),
     [CE |-> Some(HeavySide), PE |-> Some(LightSide)] @@ Row(strike, NearDate),
     [PE |-> Some(HeavySide)] @@ Row(strike, NearDate),
     [CE |-> Some(HeavySide)] @@ Row(strike, NearDate),
     [CE |-> None, PE |-> Some(LightSide)] @@ Row(strike, NearDate),
     [CE |-> Some(HeavySide), PE |-> Some(HeavySide)] @@ Row(strike, FarDate)}

\* Rows below the ones under study, more of them than the window is wide
PaddingRows(n) ==
    [i \in 1 .. n |->
        [CE |-> Some(LightSide), PE |-> Some(LightSide)] @@ Row(i, NearDate)]

\* A chain of n strikes with the same side as call and as put at every strike
SymmetricRows(side, n) ==
    [i \in 1 .. n |->
        [CE |-> Some(side), PE |-> Some(side)] @@ Row(i, NearDate)]

\* Two call sides whose scores differ by less than a hundredth: the first at
\* the ATM strike (60 + 1020/5000 + 3), the second one strike above it
\* (50 + 1000/5000 + 4000/500 + 3 + 2) with the higher volume
TieSideAtm ==
    [openInterest |-> 1020, changeinOpenInterest |-> 0,
     totalTradedVolume |-> 3000, impliedVolatility |-> 30,
     lastPrice |-> 10, change |-> 0 - 1, pChange |-> 0 - 5]
TieSideNext ==
    [openInterest |-> 1000, changeinOpenInterest |-> 4000,
     totalTradedVolume |-> 4000, impliedVolatility |-> 30,
     lastPrice |-> 10, change |-> 1, pChange |-> 5]

\* A chain of three strikes with the two sides at strikes 2 and 3
NearTieRows ==
    << [CE |-> Some(LightSide), PE |-> Some(LightSide)] @@ Row(1, NearDate),
       [CE |-> Some(TieSideAtm), PE |-> Some(LightSide)] @@ Row(2, NearDate),
       [CE |-> Some(TieSideNext), PE |-> Some(LightSide)] @@ Row(3, NearDate) >>

\* Spot prices in halves, around the strikes that follow `pad` padding rows;
\* with padding also one near the lowest strike
SpotPrices(pad) ==
    {Frac(2 * pad + n, 2) : n \in 1 .. (MaxRows + 3)}
        \cup (IF pad > 0 THEN {Frac(3, 2)} ELSE { })

Payload(spot, expiries, rows) ==
    Some([records |-> Some([underlyingValue |-> spot,
                            expiryDates |-> expiries,
                            data |-> rows])])

\* Payloads that carry no usable chain
EmptyPayload == Some(<< >>)
NoRecordsKey == Some([message |-> "no data"])
NullRecords == Some([records |-> None])
EmptyRecords == Some([records |-> Some(<< >>)])
MissingSpot == Some([records |-> Some([expiryDates |-> <<NearDate>>])])
NoExpiryDates ==
    Some([records |-> Some([underlyingValue |-> Frac(3, 2),
                            expiryDates |-> << >>])])
NoRowsForExpiry ==
    Some([records |-> Some([underlyingValue |-> Frac(3, 2),
                            expiryDates |-> <<DateString(1, "invalid")>>])])
MalformedPayloads ==
    {None, EmptyPayload, NoRecordsKey, NullRecords, EmptyRecords, MissingSpot,
     NoExpiryDates, NoRowsForExpiry}

SigInit ==
    /\ today \in Days
    /\ \/ sg_data \in MalformedPayloads
       \/ \E pad \in {0, PadRows} : \E spot \in SpotPrices(pad) :
              sg_data = Payload(spot, ChainExpiryDates, PaddingRows(pad))
       \/ \E side \in {HeavySide, NoInterestSide, UnquotedSide} :
          \E spot \in SpotPrices(0) :
              sg_data = Payload(spot, ChainExpiryDates,
                                SymmetricRows(side, MaxRows))
       \/ sg_data = Payload(Frac(4, 2), ChainExpiryDates, NearTieRows)
    /\ sg_analysis = Pending
    /\ sg_option_type = "CE"
    /\ sg_choice = Pending
    /\ sg_signal = Pending
    /\ RunIdle
    /\ ChainIdle
    /\ ConcIdle
    /\ SentIdle
    /\ PainIdle
    /\ AnIdle
    /\ AppIdle
    /\ TierIdle

SigFrame == UNCHANGED <<chainVars, concVars, sentVars, painVars, runVars,
                        anVars, appVars, tierVars>>

\* the rows of a payload that has a chain
PayloadRows == sg_data[1].records[1].data

\* how many rows follow the padding
StudiedRows(rows) ==
    IF Len(rows) >= PadRows THEN Len(rows) - PadRows ELSE Len(rows)

\* the chain in the payload gets a row at the next strike
AddRow ==
    /\ ~sg_analysis.done
    /\ sg_data \notin MalformedPayloads
    /\ StudiedRows(PayloadRows) < MaxRows
    /\ \E row \in RowKinds(Len(PayloadRows) + 1) :
        sg_data' = Payload(sg_data[1].records[1].underlyingValue,
                           sg_data[1].records[1].expiryDates,
                           Append(PayloadRows, row))
    /\ UNCHANGED <<today, sg_analysis, sg_option_type, sg_choice, sg_signal>>
    /\ SigFrame

\* analysis = self.analyze_atm_strikes(data, sym)
AnalyzeAtmStrikes ==
    /\ ~sg_analysis.done
    /\ sg_analysis' = analyze_atm_strikes(sg_data, "NIFTY", today)
    /\ UNCHANGED <<today, sg_data, sg_option_type, sg_choice, sg_signal>>
    /\ SigFrame

\* self.select_optimal_strike(analysis, option_type)
SelectOptimalStrike ==
    /\ sg_analysis.done
    /\ sg_analysis.raised = ""
    /\ ~sg_choice.done
    /\ \E option_type \in {"CE", "PE"} :
        /\ sg_option_type' = option_type
        /\ sg_choice' = Ret(select_optimal_strike(sg_analysis.value, option_type))
    /\ UNCHANGED <<today, sg_data, sg_analysis, sg_signal>>
    /\ SigFrame

\* self.generate_advanced_signal(analysis)
GenerateAdvancedSignal ==
    /\ sg_choice.done
    /\ ~sg_signal.done
    /\ sg_signal' = generate_advanced_signal(sg_analysis.value, today)
    /\ UNCHANGED <<today, sg_data, sg_analysis, sg_option_type, sg_choice>>
    /\ SigFrame

SigNext ==
    \/ AddRow
    \/ AnalyzeAtmStrikes
    \/ SelectOptimalStrike
    \/ GenerateAdvancedSignal

----------------------------------------------------------------------------
\* option_signals.py : run_complete_analysis, one action per way an
\* iteration of its loop can go

\* self.symbols, the first MaxRunSymbols of them
GENERATOR_SYMBOLS ==
    <<"NIFTY", "BANKNIFTY", "RELIANCE", "TCS", "INFY", "HDFCBANK", "ICICIBANK",
      "KOTAKBANK", "HDFC", "BHARTIARTL", "ITC", "SBIN">>
RunSymbols == SubSeq(GENERATOR_SYMBOLS, 1, MaxRunSymbols)

\* Chains that analyse: put-heavy (a CE signal), balanced (no signal), and one
\* with a null side
PutHeavyChain ==
    Payload(Frac(3, 2), ChainExpiryDates,
        <<[CE |-> Some(LightSide), PE |-> Some(HeavySide)] @@ Row(1, NearDate),
          [CE |-> Some(LightSide), PE |-> Some(HeavySide)] @@ Row(2, NearDate)>>)
BalancedChain ==
    Payload(Frac(3, 2), ChainExpiryDates,
        <<[CE |-> Some(LightSide), PE |-> Some(LightSide)] @@ Row(1, NearDate),
          [CE |-> Some(HeavySide), PE |-> Some(HeavySide)] @@ Row(2, NearDate)>>)
NullSideChain ==
    Payload(Frac(3, 2), ChainExpiryDates,
        <<[CE |-> None, PE |-> Some(HeavySide)] @@ Row(1, NearDate),
          [CE |-> Some(LightSide), PE |-> Some(HeavySide)] @@ Row(2, NearDate)>>)

\* What fetch_option_chain may hand to the loop
RunPayloads ==
    MalformedPayloads \cup {PutHeavyChain, BalancedChain, NullSideChain}

RunInit ==
    /\ today \in Days
    /\ SigCallsIdle
    /\ RunIdle
    /\ ChainIdle
    /\ ConcIdle
    /\ SentIdle
    /\ PainIdle
    /\ AnIdle
    /\ AppIdle
    /\ TierIdle

RunFrame == UNCHANGED <<chainVars, concVars, sentVars, painVars, sigVars,
                        anVars, appVars, tierVars>>

\* all_signals = [], market_data = [] and the loop is entered
StartRun ==
    /\ rca_pc = "idle"
    /\ rca_pc' = "loop"
    /\ UNCHANGED <<rca_idx, rca_fetched, all_signals, market_data>>
    /\ RunFrame

RunInLoop == rca_pc = "loop" /\ rca_idx <= Len(RunSymbols)

\* the end of an iteration that did not raise
NextSymbol(data, signals, market) ==
    /\ rca_idx' = rca_idx + 1
    /\ rca_fetched' = Append(rca_fetched, data)
    /\ all_signals' = signals
    /\ market_data' = market
    /\ UNCHANGED rca_pc
    /\ RunFrame

\* an exception leaves the loop and the function
RunRaises(data) ==
    /\ rca_pc' = "raised"
    /\ rca_fetched' = Append(rca_fetched, data)
    /\ UNCHANGED <<rca_idx, all_signals, market_data>>
    /\ RunFrame

\* the entry of market_data for an analysed symbol
market_entry(sym, analysis, now) ==
    [symbol |-> sym,
     current_price |-> analysis.current_price,
     atm_strike |-> analysis.atm_strike,
     strikes_analyzed |-> Len(analysis.strikes_analyzed),
     pcr_oi |-> None,
     pcr_volume |-> None,
     oi_ratio |-> None,
     timestamp |-> now]

\* `if not data`: fetch_option_chain returned None or an empty object
RunNoData ==
    /\ RunInLoop
    /\ \E data \in RunPayloads :
        /\ data = None \/ data = EmptyPayload
        /\ NextSymbol(data, all_signals, market_data)

\* `if not analysis`
RunNoAnalysis ==
    /\ RunInLoop
    /\ \E data \in RunPayloads \ {None, EmptyPayload} :
        /\ analyze_atm_strikes(data, RunSymbols[rca_idx], today) = Ret(None)
        /\ NextSymbol(data, all_signals, market_data)

\* analyze_atm_strikes raises
RunAnalysisRaises ==
    /\ RunInLoop
    /\ \E data \in RunPayloads \ {None, EmptyPayload} :
        /\ analyze_atm_strikes(data, RunSymbols[rca_idx], today).raised # ""
        /\ RunRaises(data)

\* generate_advanced_signal raises
RunSignalRaises ==
    /\ RunInLoop
    /\ \E data \in RunPayloads \ {None, EmptyPayload} :
        LET analysis == analyze_atm_strikes(data, RunSymbols[rca_idx], today) IN
        /\ analysis.raised = ""
        /\ analysis.value # None
        /\ generate_advanced_signal(analysis.value, today).raised # ""
        /\ RunRaises(data)

\* the symbol is analysed: its signal, if any, and its market overview entry
RunAnalysed ==
    /\ RunInLoop
    /\ \E data \in RunPayloads \ {None, EmptyPayload} :
        LET analysis == analyze_atm_strikes(data, RunSymbols[rca_idx], today)
            signal == generate_advanced_signal(analysis.value, today)
        IN
        /\ analysis.raised = ""
        /\ analysis.value # None
        /\ signal.raised = ""
        /\ NextSymbol(data,
               IF signal.value # None
               THEN Append(all_signals, signal.value[1]) ELSE all_signals,
               Append(market_data,
                      market_entry(RunSymbols[rca_idx], analysis.value[1], today)))

\* return all_signals, market_data
ReturnAnalysis ==
    /\ rca_pc = "loop"
    /\ rca_idx > Len(RunSymbols)
    /\ rca_pc' = "returned"
    /\ UNCHANGED <<rca_idx, rca_fetched, all_signals, market_data>>
    /\ RunFrame

RunNext ==
    \/ StartRun
    \/ RunNoData
    \/ RunNoAnalysis
    \/ RunAnalysisRaises
    \/ RunSignalRaises
    \/ RunAnalysed
    \/ ReturnAnalysis

----------------------------------------------------------------------------
\* backend/option_chain.py : _perform_analytics on one processed snapshot,
\* then on its own result, and the generator's calculate_pcr on the same chain

\* Open interest and volume of one strike: ce_oi, pe_oi, ce_volume, pe_volume
AnalyticsOiParts ==
    { <<0, 0, 0, 0>>, <<0, 0, 2, 1>>, <<0, 2, 1, 1>>, <<2, 0, 1, 0>>,
      <<1, 1, 1, 1>>, <<3, 3, 1, 2>>, <<1, 3, 1, 0>>, <<3, 1, 0, 2>> }

\* Change in open interest and last price of one strike: ce_change_oi,
\* pe_change_oi, ce_last_price, pe_last_price
AnalyticsFlowParts ==
    { <<0, 0, 10, 10>>, <<1001, 1000, 10, 10>>, <<1001, 1001, 0, 10>>,
      <<0 - 5, 2000, 10, 0>> }

\* Strikes are listed StrikeStep apart, in ascending order
StrikeStep == 500

RawStrike(strike, oi, flow) ==
    [strike |-> strike, ce_oi |-> oi[1], pe_oi |-> oi[2],
     ce_volume |-> oi[3], pe_volume |-> oi[4],
     ce_change_oi |-> flow[1], pe_change_oi |-> flow[2],
     ce_last_price |-> flow[3], pe_last_price |-> flow[4]]

\* The spot between the first two strikes, and beyond the second
AnalyticsSpots == {StrikeStep + StrikeStep \div 2, 2 * StrikeStep + 100}

\* The same strike as a row of the exchange's chain
chain_row(strike) ==
    [strikePrice |-> strike.strike,
     CE |-> Some([openInterest |-> strike.ce_oi,
                  totalTradedVolume |-> strike.ce_volume]),
     PE |-> Some([openInterest |-> strike.pe_oi,
                  totalTradedVolume |-> strike.pe_volume])]

AnInit ==
    /\ an_processed_data \in [spot_price : AnalyticsSpots, strike_data : {<< >>}]
    /\ an_analysis = NotRun
    /\ an_second = NotRun
    /\ an_generator_pcr = NotRun
    /\ ts_result = Pending
    /\ ChainIdle
    /\ ConcIdle
    /\ SentIdle
    /\ PainIdle
    /\ SigIdle
    /\ RunIdle
    /\ AppIdle
    /\ TierIdle

AnFrame == UNCHANGED <<chainVars, concVars, sentVars, painVars, sigVars, runVars,
                       appVars, tierVars>>

\* the processor's strike table gets its next strike
AddStrike ==
    /\ ~an_analysis.done
    /\ Len(an_processed_data.strike_data) < MaxAnalyticsStrikes
    /\ \E oi \in AnalyticsOiParts, flow \in AnalyticsFlowParts :
        an_processed_data' =
            [an_processed_data EXCEPT !.strike_data =
                Append(@, RawStrike(StrikeStep * (Len(@) + 1), oi, flow))]
    /\ UNCHANGED <<an_analysis, an_second, an_generator_pcr, ts_result>>
    /\ AnFrame

\* _perform_analytics(processed_data)
PerformAnalytics ==
    /\ ~an_analysis.done
    /\ an_analysis' = Returned(analysis_of(an_processed_data))
    /\ UNCHANGED <<an_processed_data, an_second, an_generator_pcr, ts_result>>
    /\ AnFrame

\* _perform_analytics({**processed_data, 'strike_data': analysis['strike_data']})
PerformAnalyticsAgain ==
    /\ an_analysis.done
    /\ ~an_second.done
    /\ an_second' = Returned(analysis_of(
           [an_processed_data EXCEPT
               !.strike_data = an_analysis.value.strike_data]))
    /\ UNCHANGED <<an_processed_data, an_analysis, an_generator_pcr, ts_result>>
    /\ AnFrame

\* AdvancedOptionSignalGenerator.calculate_pcr(data_rows) on the same chain
GeneratorPcr ==
    /\ an_second.done
    /\ ~an_generator_pcr.done
    /\ an_generator_pcr' = Returned(generator_calculate_pcr(
           [i \in DOMAIN an_processed_data.strike_data |->
               chain_row(an_processed_data.strike_data[i])]))
    /\ UNCHANGED <<an_processed_data, an_analysis, an_second, ts_result>>
    /\ AnFrame

AnNext ==
    \/ AddStrike
    \/ PerformAnalytics
    \/ PerformAnalyticsAgain
    \/ GeneratorPcr

----------------------------------------------------------------------------

\* option_signals.py : analyze_atm_strikes on payloads whose expiryDates
\* list is in any order, with past, present and future dates

\* The date strings a list may hold: three days written as the exchange
\* writes them, one of them also without its leading zero, and a string that
\* is no date
ExpiryDateStrings ==
    {DateString(d, "padded") : d \in 1 .. 3}
        \cup {NearDateUnpadded, DateString(1, "invalid")}

\* datetime.now().date() before, on and after the listed days
ExpiryToday == 1 .. 4

\* One row per listed day, the row of day d at strike d
ExpiryRows ==
    [d \in 1 .. 3 |->
        [CE |-> Some(HeavySide), PE |-> Some(LightSide)]
            @@ Row(d, DateString(d, "padded"))]

ExpiryInit ==
    /\ today \in ExpiryToday
    /\ sg_data = Payload(Frac(3, 2), << >>, ExpiryRows)
    /\ sg_analysis = Pending
    /\ sg_option_type = "CE"
    /\ sg_choice = Pending
    /\ sg_signal = Pending
    /\ RunIdle
    /\ ChainIdle
    /\ ConcIdle
    /\ SentIdle
    /\ PainIdle
    /\ AnIdle
    /\ AppIdle
    /\ TierIdle

\* the payload lists one more expiry
AddExpiry ==
    /\ ~sg_analysis.done
    /\ Len(sg_data[1].records[1].expiryDates) < MaxExpiries
    /\ \E d \in ExpiryDateStrings :
        sg_data' = Payload(sg_data[1].records[1].underlyingValue,
                           Append(sg_data[1].records[1].expiryDates, d),
                           PayloadRows)
    /\ UNCHANGED <<today, sg_analysis, sg_option_type, sg_choice, sg_signal>>
    /\ SigFrame

ExpiryNext ==
    \/ AddExpiry
    \/ AnalyzeAtmStrikes

----------------------------------------------------------------------------

\* backend/option_chain.py : _perform_analytics on chains long enough for the
\* cut to the strikes of highest open interest, and get_trading_signals on
\* the analysis it stored

\* the breakout rule taking a spot below the resistance for a break
get_trading_signals_below_resistance(the_current_data, symbol, now) ==
    IF symbol \notin DOMAIN the_current_data \/ the_current_data[symbol] = None
    THEN Ret(<< >>)
    ELSE
    LET data == the_current_data[symbol][1]
        analysis == data.analysis
        pcr_oi == analysis.pcr.pcr_oi
        pcr_signal ==
            IF FracGT(pcr_oi, Frac(14, 10))
            THEN <<"PCR indicates oversold - Potential BUY signal">>
            ELSE IF FracLT(pcr_oi, Frac(6, 10))
            THEN <<"PCR indicates overbought - Potential SELL signal">>
            ELSE << >>
        skew_signal ==
            IF analysis.skew_patterns.bullish_skew
            THEN <<"OI Skew suggests bullish bias">>
            ELSE IF analysis.skew_patterns.bearish_skew
            THEN <<"OI Skew suggests bearish bias">>
            ELSE << >>
    IN
    \* data['spot_price'] > None
    IF analysis.max_pain = None THEN Exc("TypeError")
    ELSE
    LET pain_signal ==
            IF data.spot_price > analysis.max_pain[1]
            THEN <<"Spot above Max Pain - Mildly Bearish">>
            ELSE <<"Spot below Max Pain - Mildly Bullish">>
        strong_resistance == analysis.support_resistance.strong_resistance
        strong_support == analysis.support_resistance.strong_support
        is_set(level) == level # None /\ level # Some(0)
        breakout_signal ==
            IF is_set(strong_resistance)
               /\ data.spot_price < strong_resistance[1]
            THEN <<"Breaking strong resistance - BULLISH">>
            ELSE IF is_set(strong_support)
                    /\ data.spot_price < strong_support[1]
            THEN <<"Breaking strong support - BEARISH">>
            ELSE << >>
        sentiment == analysis.sentiment_score
        sentiment_signal ==
            IF sentiment > 70 THEN <<"Strong bullish sentiment">>
            ELSE IF sentiment < 30 THEN <<"Strong bearish sentiment">>
            ELSE << >>
        confidence == 25 * Len(pcr_signal) + 20 * Len(skew_signal)
                      + 15 * Len(pain_signal) + 20 * Len(breakout_signal)
                      + 20 * Len(sentiment_signal)
    IN Ret([signals |-> pcr_signal \o skew_signal \o pain_signal
                            \o breakout_signal \o sentiment_signal,
            confidence |-> Min(100, confidence),
            overall_bias |-> IF sentiment > 60 THEN "BULLISH"
                             ELSE IF sentiment < 40 THEN "BEARISH"
                             ELSE "NEUTRAL",
            timestamp |-> now])

\* get_trading_signals(symbol), reading self.current_data
get_trading_signals(the_current_data, symbol, now) ==
    IF symbol \notin DOMAIN the_current_data \/ the_current_data[symbol] = None
    THEN Ret(<< >>)
    ELSE
    LET data == the_current_data[symbol][1]
        analysis == data.analysis
        pcr_oi == analysis.pcr.pcr_oi
        pcr_signal ==
            IF FracGT(pcr_oi, Frac(14, 10))
            THEN <<"PCR indicates oversold - Potential BUY signal">>
            ELSE IF FracLT(pcr_oi, Frac(6, 10))
            THEN <<"PCR indicates overbought - Potential SELL signal">>
            ELSE << >>
        skew_signal ==
            IF analysis.skew_patterns.bullish_skew
            THEN <<"OI Skew suggests bullish bias">>
            ELSE IF analysis.skew_patterns.bearish_skew
            THEN <<"OI Skew suggests bearish bias">>
            ELSE << >>
    IN
    \* data['spot_price'] > None
    IF analysis.max_pain = None THEN Exc("TypeError")
    ELSE
    LET pain_signal ==
            IF data.spot_price > analysis.max_pain[1]
            THEN <<"Spot above Max Pain - Mildly Bearish">>
            ELSE <<"Spot below Max Pain - Mildly Bullish">>
        strong_resistance == analysis.support_resistance.strong_resistance
        strong_support == analysis.support_resistance.strong_support
        is_set(level) == level # None /\ level # Some(0)
        breakout_signal ==
            IF is_set(strong_resistance)
               /\ data.spot_price > strong_resistance[1]
            THEN <<"Breaking strong resistance - BULLISH">>
            ELSE IF is_set(strong_support)
                    /\ data.spot_price < strong_support[1]
            THEN <<"Breaking strong support - BEARISH">>
            ELSE << >>
        sentiment == analysis.sentiment_score
        sentiment_signal ==
            IF sentiment > 70 THEN <<"Strong bullish sentiment">>
            ELSE IF sentiment < 30 THEN <<"Strong bearish sentiment">>
            ELSE << >>
        confidence == 25 * Len(pcr_signal) + 20 * Len(skew_signal)
                      + 15 * Len(pain_signal) + 20 * Len(breakout_signal)
                      + 20 * Len(sentiment_signal)
    IN Ret([signals |-> pcr_signal \o skew_signal \o pain_signal
                            \o breakout_signal \o sentiment_signal,
            confidence |-> Min(100, confidence),
            overall_bias |-> IF sentiment > 60 THEN "BULLISH"
                             ELSE IF sentiment < 40 THEN "BEARISH"
                             ELSE "NEUTRAL",
            timestamp |-> now])

\* Open interest of one strike, volumes equal: ce_oi, pe_oi, ce_volume,
\* pe_volume
LevelOiParts == { <<1, 4, 1, 1>>, <<4, 1, 1, 1>>, <<2, 2, 1, 1>> }

\* Strikes are listed LevelStep apart; the spot lies below all of them, between
\* them, on one of them
LevelStep == 100
LevelSpots == {50, 250, 300, 350, 450}

LevelsInit ==
    /\ an_processed_data \in [spot_price : LevelSpots, strike_data : {<< >>}]
    /\ an_analysis = NotRun
    /\ an_second = NotRun
    /\ an_generator_pcr = NotRun
    /\ ts_result = Pending
    /\ ChainIdle
    /\ ConcIdle
    /\ SentIdle
    /\ PainIdle
    /\ SigIdle
    /\ RunIdle
    /\ AppIdle
    /\ TierIdle

\* the processor's strike table gets its next strike
AddLevelStrike ==
    /\ ~an_analysis.done
    /\ Len(an_processed_data.strike_data) < MaxLevelStrikes
    /\ \E oi \in LevelOiParts :
        an_processed_data' =
            [an_processed_data EXCEPT !.strike_data =
                Append(@, RawStrike(LevelStep * (Len(@) + 1), oi,
                                    <<0, 0, 10, 10>>))]
    /\ UNCHANGED <<an_analysis, an_second, an_generator_pcr, ts_result>>
    /\ AnFrame

\* self.current_data[symbol] after the cycle that analysed the snapshot
StoredData ==
    [s \in SymbolSet |->
        IF s = Symbols[1] /\ an_analysis.done
        THEN Some(with_analysis(an_processed_data, an_analysis.value, 0))
        ELSE None]

\* get_trading_signals(symbol) for a symbol with and without an analysis
GetTradingSignals ==
    /\ ~ts_result.done
    /\ \E symbol \in SymbolSet :
        ts_result' = get_trading_signals(StoredData, symbol, 1)
    /\ UNCHANGED <<an_processed_data, an_analysis, an_second, an_generator_pcr>>
    /\ AnFrame

LevelsNext ==
    \/ AddLevelStrike
    \/ PerformAnalytics
    \/ GetTradingSignals

----------------------------------------------------------------------------
\* backend/app.py : fetch_and_process_data, one action per way an iteration
\* of its loop can go.  The scheduler's job and fetch_all_chains are calls of
\* their own on state of their own; they are taken one call at a time, and
\* MaxCycles bounds the calls of both together.

CONFIG_SYMBOLS == Symbols

\* the 'analysis' dict fetch_and_process_data builds
app_analysis_of(processed_data) ==
    LET strike_data == identify_buildup(volume_oi_efficiency(
                           calculate_oi_skew(processed_data.strike_data)))
    IN [pcr |-> calculate_pcr(strike_data),
        max_pain |-> find_max_pain(strike_data),
        skew_patterns |-> analyze_skew_patterns(strike_data,
                                                processed_data.spot_price),
        strike_data |-> strike_data,
        spot_price |-> processed_data.spot_price,
        timestamp |-> processed_data.timestamp]

\* the analytics block raises KeyError when a key it reads is absent
app_analytics_raises(processed_data) ==
    \/ "strike_data" \notin DOMAIN processed_data
    \/ "spot_price" \notin DOMAIN processed_data
    \/ "timestamp" \notin DOMAIN processed_data

\* Processed snapshots with the time the processor stamps on them: a chain
\* and a dict that lacks its strike table; and the chain without a timestamp
AppInputs(now) ==
    {[timestamp |-> now] @@ pd : pd \in {CallHeavySnapshot, MalformedSnapshot}}
        \cup {CallHeavySnapshot}

AppFrame == UNCHANGED <<concVars, sentVars, painVars, sigVars, runVars, anVars,
                        tierVars>>

AppChainFrame ==
    UNCHANGED <<max_historical_points, current_data, historical_data, heap,
                results, chain_pc, sym_idx, cycles, appended, outcome>>

\* the job starts: for symbol in Config.SYMBOLS
AppStart ==
    /\ app_pc = "idle"
    /\ chain_pc = "idle"
    /\ cycles + app_cycles < MaxCycles
    /\ app_pc' = "loop"
    /\ app_idx' = 1
    /\ app_cycles' = app_cycles + 1
    /\ app_outcome' = NoOutcome
    /\ UNCHANGED <<app_market_data, clock>>
    /\ AppChainFrame
    /\ AppFrame

AppInLoop == app_pc = "loop" /\ app_idx <= Len(CONFIG_SYMBOLS)

\* an iteration that reaches no assignment
AppSkip(why) ==
    /\ app_idx' = app_idx + 1
    /\ app_outcome' = [app_outcome EXCEPT ![CONFIG_SYMBOLS[app_idx]] = why]
    /\ UNCHANGED <<app_market_data, app_pc, app_cycles, clock>>
    /\ AppChainFrame
    /\ AppFrame

\* if raw_data: is false
AppNoData ==
    /\ AppInLoop
    /\ AppSkip("no_data")

\* if processed_data: is false
AppProcessFailed ==
    /\ AppInLoop
    /\ AppSkip("process_failed")

\* the fetcher or the processor raises: except Exception, print
AppFetchRaises ==
    /\ AppInLoop
    /\ AppSkip("raised")

\* a processed snapshot arrives: analytics, then market_data[symbol] = {...}
AppAnalyseSymbol ==
    /\ AppInLoop
    /\ \E processed_data \in AppInputs(clock) :
        IF app_analytics_raises(processed_data)
        THEN AppSkip("raised")
        ELSE LET symbol == CONFIG_SYMBOLS[app_idx]
                 analysis == app_analysis_of(processed_data)
             IN /\ app_market_data' =
                      [app_market_data EXCEPT ![symbol] =
                          [data |-> Some(processed_data),
                           analysis |-> Some(analysis),
                           timestamp |-> Some(clock)]]
                /\ app_outcome' = [app_outcome EXCEPT ![symbol] = "completed"]
                /\ clock' = clock + 1
                /\ app_idx' = app_idx + 1
                /\ UNCHANGED <<app_pc, app_cycles>>
                /\ AppChainFrame
                /\ AppFrame

\* the loop ends and the call returns; its locals are gone
AppReturn ==
    /\ app_pc = "loop"
    /\ app_idx > Len(CONFIG_SYMBOLS)
    /\ app_pc' = "idle"
    /\ app_idx' = 1
    /\ app_outcome' = NoOutcome
    /\ UNCHANGED <<app_market_data, app_cycles, clock>>
    /\ AppChainFrame
    /\ AppFrame

\* get_symbol_data(symbol): the analysis, or 404
app_get_symbol_data(the_market_data, symbol) ==
    IF symbol \in DOMAIN the_market_data
       /\ the_market_data[symbol].analysis # None
    THEN [status |-> 200, body |-> the_market_data[symbol].analysis]
    ELSE [status |-> 404, body |-> None]

\* The history buffer as the module constructs it, and with a window small
\* enough to fill
StoreInit ==
    /\ \E cap \in {MaxCap, DEFAULT_MAX_HISTORICAL_POINTS} : ChainConstructed(cap)
    /\ ConcIdle /\ SentIdle /\ PainIdle /\ SigIdle /\ RunIdle /\ AnIdle
    /\ AppIdle
    /\ TierIdle

StoreNext ==
    \/ StartFetchAll
    \/ FetchNoData
    \/ ProcessFailed
    \/ FetchRaises
    \/ AnalyseSymbol
    \/ ReturnResults
    \/ AppStart
    \/ AppNoData
    \/ AppProcessFailed
    \/ AppFetchRaises
    \/ AppAnalyseSymbol
    \/ AppReturn

----------------------------------------------------------------------------
\* option_signals.py : the point counts and the tier of
\* generate_advanced_signal, for a pcr_oi and an oi_ratio of any origin
\* (pcr_oi comes from all rows of the expiry, oi_ratio from the ATM window)

\* pcr_oi, two decimals, on both sides of and at every threshold
TierPcrValues == {0, 59, 60, 61, 79, 80, 81, 100, 119, 120, 121, 149, 150, 151,
                  300}

\* oi_ratio on both sides of and at its thresholds; 0.0 also stands for a
\* window without call open interest
TierRatioValues == {Frac(0, 1), Frac(69, 100), Frac(7, 10), Frac(71, 100),
                    Frac(1, 1), Frac(129, 100), Frac(13, 10), Frac(131, 100),
                    Frac(3, 1)}

TierInit ==
    /\ tp_pcr_oi \in TierPcrValues
    /\ tp_oi_ratio \in TierRatioValues
    /\ tp_result = NotRun
    /\ ChainIdle
    /\ ConcIdle
    /\ SentIdle
    /\ PainIdle
    /\ SigIdle
    /\ RunIdle
    /\ AnIdle
    /\ AppIdle

\* bullish and bearish are counted and the tier is chosen
CountPoints ==
    /\ ~tp_result.done
    /\ LET bullish == bullish_points(tp_pcr_oi, tp_oi_ratio)
           bearish == bearish_points(tp_pcr_oi, tp_oi_ratio)
       IN tp_result' = Returned([bullish |-> bullish, bearish |-> bearish,
                                 tier |-> signal_tier(bullish, bearish)])
    /\ UNCHANGED <<tp_pcr_oi, tp_oi_ratio>>
    /\ UNCHANGED <<chainVars, concVars, sentVars, painVars, sigVars, runVars,
                   anVars, appVars>>

TierNext == CountPoints

----------------------------------------------------------------------------

\* Specifications

\* OptionChain: construction, then fetch_all_chains cycle after cycle
Init == ChainInit /\ ConcIdle /\ SentIdle /\ PainIdle /\ SigIdle /\ RunIdle
        /\ AnIdle /\ AppIdle /\ TierIdle

Next ==
    \/ StartFetchAll
    \/ FetchNoData
    \/ ProcessFailed
    \/ FetchRaises
    \/ AnalyseSymbol
    \/ ReturnResults

Spec == Init /\ [][Next]_vars

\* Two concurrent _update_historical_data calls on one symbol
SpecConc == ConcInit /\ [][ConcNext]_vars

\* One call of _calculate_sentiment_score
SpecSentiment == SentInit /\ [][SentNext]_vars

\* Calls of find_max_pain on reordered lists
SpecMaxPain == PainInit /\ [][PainNext]_vars

\* One payload through the signal generator's three steps
SpecSignals == SigInit /\ [][SigNext]_vars

\* One run of run_complete_analysis
SpecRun == RunInit /\ [][RunNext]_vars

\* One snapshot through _perform_analytics, twice
SpecAnalytics == AnInit /\ [][AnNext]_vars

\* analyze_atm_strikes on one payload
SpecExpiry == ExpiryInit /\ [][ExpiryNext]_vars

\* One snapshot analysed and stored, then get_trading_signals
SpecLevels == LevelsInit /\ [][LevelsNext]_vars

\* fetch_all_chains and fetch_and_process_data, call after call
SpecStore == StoreInit /\ [][StoreNext]_vars

\* The point counts and the tier for one pcr_oi and oi_ratio
SpecTier == TierInit /\ [][TierNext]_vars

----------------------------------------------------------------------------
\* Properties of the history buffer

Buffer(s) == ListOf(historical_data, heap, s)

\* C1: for every capacity N >= 0, after any sequence of
\* _update_historical_data calls each symbol's history buffer holds at most
\* N points.
C1_HistoryWithinCapacity ==
    \A s \in SymbolSet : Len(Buffer(s)) <= max_historical_points

\* C2: for a capacity N >= 1, after N+k appends to a symbol's buffer the
\* buffer holds exactly the N most recently appended points, in the order of
\* their appends (and all of them while fewer than N were appended).
C2_OldestFirstEviction ==
    max_historical_points >= 1 =>
        \A s \in SymbolSet :
            LET n == Len(appended[s]) IN
            Buffer(s) = SubSeq(appended[s],
                               Max(1, n - max_historical_points + 1), n)

\* C2, its case: more than N+1 appends, so that points were evicted twice
C2_Witness ==
    \E s \in SymbolSet :
        /\ max_historical_points >= 1
        /\ Len(appended[s]) > max_historical_points + 1
        /\ Len(Buffer(s)) = max_historical_points

AllDone == \A t \in Threads : th[t].pc = "done"

PositionIn(seq, x) == CHOOSE i \in DOMAIN seq : seq[i] = x

\* C3: when the steps of two concurrent _update_historical_data calls for
\* one symbol interleave in any order, then once both have finished the
\* buffer holds at most N points, and the point of each call is in it unless
\* eviction removed it as the oldest (the buffer is full of points appended
\* after it).
C3_ExclusiveAppend ==
    AllDone =>
        /\ Len(Buffer(ConcSymbol)) <= max_historical_points
        /\ \A t \in Threads :
            LET point == HistoryPoint(PassData(t), MaxCap + t)
                log == appended[ConcSymbol]
            IN \/ point \in Range(Buffer(ConcSymbol))
               \/ /\ Len(Buffer(ConcSymbol)) = max_historical_points
                  /\ \A q \in Range(Buffer(ConcSymbol)) :
                        PositionIn(log, q) > PositionIn(log, point)

\* C4: an analysis cycle for one symbol (store of the current data, history
\* append, eviction) leaves the current data and the history buffer of every
\* other symbol as they were.
C4_SymbolsIsolated ==
    [][\A s \in SymbolSet :
          (InLoop /\ Symbols[sym_idx] = s) =>
              \A t \in SymbolSet \ {s} :
                  /\ current_data'[t] = current_data[t]
                  /\ ListOf(historical_data', heap', t) = Buffer(t)]_vars

\* C4, its case: a symbol's cycle has just completed with an eviction while
\* another symbol holds data and history of its own
C4_Witness ==
    \E s \in SymbolSet : \E t \in SymbolSet \ {s} :
        /\ max_historical_points >= 1
        /\ outcome[s] = "completed"
        /\ Len(appended[s]) > max_historical_points
        /\ current_data[t] # None
        /\ Buffer(t) # << >>
        /\ Buffer(t) # Buffer(s)

----------------------------------------------------------------------------
\* Properties of the sentiment score

\* C6: _calculate_sentiment_score returns an integer in [0,100] for every
\* combination of pcr_oi, skew flags, buildup labels and volume/OI ratios.
C6_SentimentInRange ==
    ss_score # None => ss_score[1] \in 0 .. 100

\* C6, its case: all four adjustments apply upwards at once, with an extreme
\* pcr_oi
C6_Witness ==
    /\ ss_score = Some(100)
    /\ ss_pcr = Frac(1000000, 1)
    /\ buildup_adjustment(ss_strikes) = 10
    /\ efficiency_adjustment(ss_strikes) = 10

\* the rows of the sentiment table, each on its own
TablePcrDelta ==
    LET n == ss_pcr[1]  d == ss_pcr[2] IN
      (IF 10 * n > 14 * d THEN 15 ELSE 0)
    + (IF 10 * n > 11 * d /\ 10 * n <= 14 * d THEN 8 ELSE 0)
    + (IF 10 * n < 6 * d THEN 0 - 15 ELSE 0)
    + (IF 10 * n >= 6 * d /\ 10 * n < 9 * d THEN 0 - 8 ELSE 0)

TableSkewDelta ==
      (IF ss_skew.bullish_skew THEN 15 ELSE 0)
    + (IF ss_skew.bearish_skew THEN 0 - 15 ELSE 0)

LongCount(key) ==
    Cardinality({i \in DOMAIN ss_strikes :
        key \in DOMAIN ss_strikes[i] /\ ss_strikes[i][key] = "LONG"})

TableBuildupDelta ==
      (IF LongCount("ce_buildup") > LongCount("pe_buildup") + 5 THEN 10 ELSE 0)
    + (IF LongCount("pe_buildup") > LongCount("ce_buildup") + 5
       THEN 0 - 10 ELSE 0)

AboveHalf(i, key) ==
    /\ key \in DOMAIN ss_strikes[i]
    /\ 2 * ss_strikes[i][key][1] > ss_strikes[i][key][2]

TableEfficiencyDelta ==
    IF Cardinality({i \in DOMAIN ss_strikes :
           AboveHalf(i, "ce_volume_oi_ratio")
               \/ AboveHalf(i, "pe_volume_oi_ratio")}) > 10
    THEN 10 ELSE 0

TableSum ==
    50 + TablePcrDelta + TableSkewDelta + TableBuildupDelta
       + TableEfficiencyDelta

\* C19: _calculate_sentiment_score is the table's sum clamped to [0, 100]:
\* 50, plus the PCR row that applies, plus 15 for the bullish and minus 15
\* for the bearish skew flag, plus or minus 10 for a margin of more than 5
\* LONG buildups, plus 10 when more than 10 strikes have a volume/OI ratio
\* above 0.5.  The two skew flags are those of analyze_skew_patterns, which
\* never sets both.
C19_SentimentTable ==
    (ss_score # None /\ ~(ss_skew.bullish_skew /\ ss_skew.bearish_skew)) =>
        ss_score[1] = (IF TableSum < 0 THEN 0
                       ELSE IF TableSum > 100 THEN 100 ELSE TableSum)

\* a score to which all four groups of the table contribute, the PCR at a
\* threshold
C19_Witness ==
    /\ ss_score # None
    /\ ss_pcr = Frac(14, 10)
    /\ ss_skew.bullish_skew
    /\ ~ss_skew.bearish_skew
    /\ TableBuildupDelta = 10
    /\ TableEfficiencyDelta = 10
    /\ ss_score[1] = 93

\* a score with the bearish rows: PCR in [0.6, 0.9), bearish skew, more put
\* than call buildups
C19_BearishWitness ==
    /\ ss_score # None
    /\ ss_pcr = Frac(6, 10)
    /\ ss_skew.bearish_skew
    /\ ~ss_skew.bullish_skew
    /\ TableBuildupDelta = 0 - 10
    /\ ss_score[1] = 50 - 8 - 15 - 10 + TableEfficiencyDelta

----------------------------------------------------------------------------
\* Properties of max pain

\* C7: find_max_pain returns the same strike for a strike list and for
\* every permutation of it.
C7_MaxPainOrderIndependent ==
    (mp_first.done /\ mp_result.done) => mp_result.value = mp_first.value

\* C8: for a non-empty strike list with non-negative open interest
\* find_max_pain returns the strike of one of the records, and for a single
\* strike it returns that strike.
C8_MaxPainIsInputStrike ==
    (mp_result.done /\ mp_strike_data # << >>) =>
        /\ mp_result.value # None
        /\ \E i \in DOMAIN mp_strike_data :
              mp_result.value = Some(mp_strike_data[i].strike)
        /\ Len(mp_strike_data) = 1 =>
              mp_result.value = Some(mp_strike_data[1].strike)

\* C8, its case: a call on several strikes with open interest, whose minimum
\* is found after the first record
C8_Witness ==
    /\ mp_result.done
    /\ Len(mp_strike_data) >= 2
    /\ \E i \in DOMAIN mp_strike_data : mp_strike_data[i].ce_oi > 0
    /\ mp_result.value # None
    /\ mp_result.value # Some(mp_strike_data[1].strike)

\* the list is in ascending strike order
StrikeAscending ==
    \A i \in 1 .. (Len(mp_strike_data) - 1) :
        mp_strike_data[i].strike < mp_strike_data[i + 1].strike

\* L(c): what the calls written below c and the puts written above c lose
\* when the underlying settles at c
CallLoss(c) ==
    SumSeq([i \in DOMAIN mp_strike_data |->
        IF mp_strike_data[i].strike < c
        THEN mp_strike_data[i].ce_oi * (c - mp_strike_data[i].strike) ELSE 0])
PutLoss(c) ==
    SumSeq([i \in DOMAIN mp_strike_data |->
        IF mp_strike_data[i].strike > c
        THEN mp_strike_data[i].pe_oi * (mp_strike_data[i].strike - c) ELSE 0])
L(c) == CallLoss(c) + PutLoss(c)

ListedStrikes == {mp_strike_data[i].strike : i \in DOMAIN mp_strike_data}

\* C18: for a strike-ascending list find_max_pain returns a strike c that
\* minimises L(c) over the listed strikes, and among the strikes that reach
\* the minimum it returns the lowest one.
C18_MaxPainMinimisesLoss ==
    (mp_result.done /\ StrikeAscending /\ mp_strike_data # << >>) =>
        /\ mp_result.value # None
        /\ mp_result.value[1] \in ListedStrikes
        /\ \A c \in ListedStrikes : L(mp_result.value[1]) <= L(c)
        /\ \A c \in ListedStrikes :
              L(c) = L(mp_result.value[1]) => mp_result.value[1] <= c

\* an ascending list whose minimum is reached by two strikes, neither of
\* them the first of the list
C18_Witness ==
    /\ mp_result.done
    /\ StrikeAscending
    /\ Len(mp_strike_data) = MaxPainStrikes
    /\ L(mp_strike_data[1].strike) > L(mp_strike_data[2].strike)
    /\ L(mp_strike_data[2].strike) = L(mp_strike_data[3].strike)
    /\ mp_result.value = Some(mp_strike_data[2].strike)

----------------------------------------------------------------------------
\* Properties of the signal generator

\* The analysis the payload gave, when it gave one
Analysed == sg_analysis.done /\ sg_analysis.value # None
TheAnalysis == sg_analysis.value[1]

\* strike < floor(price) and strike > ceil(price), from the meaning of floor
\* and ceil: a whole step or more below, a whole step or more above
BelowFloor(strike, price) == (strike + 1) * price[2] <= price[1]
AboveCeil(strike, price) == (strike - 1) * price[2] >= price[1]

\* the window holds no row that can be a candidate for the side: the side is
\* absent, null or empty, or the strike is on the wrong side of the price
NoEligibleCandidate(option_type) ==
    \A i \in DOMAIN TheAnalysis.data :
        LET r == TheAnalysis.data[i] IN
        \/ option_type \notin DOMAIN r
        \/ r[option_type] = None
        \/ r[option_type][1] = << >>
        \/ option_type = "CE" /\ BelowFloor(r.strikePrice, TheAnalysis.current_price)
        \/ option_type = "PE" /\ AboveCeil(r.strikePrice, TheAnalysis.current_price)

\* C9: select_optimal_strike never returns a CE candidate whose strike is
\* below floor(spot) nor a PE candidate whose strike is above ceil(spot).
C9_SelectedStrikeEligible ==
    (Analysed /\ sg_choice.done /\ sg_choice.value # None) =>
        /\ sg_option_type = "CE" =>
              ~BelowFloor(sg_choice.value[1].strike, TheAnalysis.current_price)
        /\ sg_option_type = "PE" =>
              ~AboveCeil(sg_choice.value[1].strike, TheAnalysis.current_price)

\* C9, its case: a strike is returned for a side although the window holds a
\* row with that side on the excluded side of the price
C9_Witness ==
    /\ Analysed
    /\ sg_choice.done
    /\ sg_choice.value # None
    /\ sg_option_type = "CE"
    /\ \E i \in DOMAIN TheAnalysis.data :
          LET r == TheAnalysis.data[i] IN
          /\ "CE" \in DOMAIN r
          /\ r.CE # None
          /\ BelowFloor(r.strikePrice, TheAnalysis.current_price)

\* the points the analysis scores, when no null side stops the count
Points ==
    LET pcr_oi == generator_calculate_pcr(TheAnalysis.all_data)[1]
        ce == window_oi(TheAnalysis.data, "CE")
        pe == window_oi(TheAnalysis.data, "PE")
        oi_ratio == IF ce > 0 THEN Frac(pe, ce) ELSE FracZero
    IN [bullish |-> bullish_points(pcr_oi, oi_ratio),
        bearish |-> bearish_points(pcr_oi, oi_ratio)]

\* C10: with no eligible candidate in the window for the requested side
\* select_optimal_strike returns None, not an exception, and
\* generate_advanced_signal emits no signal for that side; every emitted
\* signal carries the strike select_optimal_strike returned for its side.
C10_NoCandidateNoSignal ==
    /\ (Analysed /\ sg_choice.done /\ NoEligibleCandidate(sg_option_type)) =>
           sg_choice = Ret(None)
    /\ (Analysed /\ sg_signal.done /\ sg_signal.value # None) =>
           /\ ~NoEligibleCandidate(sg_signal.value[1].option_type)
           /\ sg_option_type = sg_signal.value[1].option_type =>
                 /\ sg_choice.value # None
                 /\ sg_signal.value[1].strike_price = sg_choice.value[1].strike

\* C10, its case: the bullish count reached its threshold, the window holds
\* call sides but none at or above the price, and no signal came out
C10_Witness ==
    /\ Analysed
    /\ sg_signal = Ret(None)
    /\ sg_option_type = "CE"
    /\ sg_choice = Ret(None)
    /\ ~window_oi_raises(TheAnalysis.data, "CE")
    /\ ~window_oi_raises(TheAnalysis.data, "PE")
    /\ Points.bullish >= 2
    /\ \E i \in DOMAIN TheAnalysis.data : "CE" \in DOMAIN TheAnalysis.data[i]
    /\ NoEligibleCandidate("CE")

\* C10, the other half: a signal came out with the strike that
\* select_optimal_strike returned
C10_SignalWitness ==
    /\ Analysed
    /\ sg_signal.done
    /\ sg_signal.value # None
    /\ sg_option_type = sg_signal.value[1].option_type
    /\ sg_signal.value[1].strike_price = sg_choice.value[1].strike

----------------------------------------------------------------------------
\* Properties of run_complete_analysis

\* the symbols whose fetch returned a payload with no usable chain
SkippedSymbols ==
    {RunSymbols[i] : i \in {j \in DOMAIN rca_fetched :
                               rca_fetched[j] \in MalformedPayloads}}

\* C5: a malformed or empty snapshot for a symbol, or an exception raised
\* while analysing it, yields no analysis result and no signal for that
\* symbol, and every later symbol of the cycle is still fetched and analysed.
C5_MalformedSnapshotSkipped ==
    /\ \A i \in DOMAIN all_signals : all_signals[i].symbol \notin SkippedSymbols
    /\ \A i \in DOMAIN market_data : market_data[i].symbol \notin SkippedSymbols
    /\ rca_pc \in {"returned", "raised"} => Len(rca_fetched) = Len(RunSymbols)

----------------------------------------------------------------------------
\* Properties of the signal tiers

\* the call of generate_advanced_signal returned and did not raise
SignalReturned == Analysed /\ sg_signal.done /\ sg_signal.raised = ""

\* pcr_oi as the signal generator computes it, in hundredths, and the ratio
\* of the window's put to call open interest
SignalPcrOi == generator_calculate_pcr(TheAnalysis.all_data)[1]
SignalOiRatio ==
    LET ce == window_oi(TheAnalysis.data, "CE")
        pe == window_oi(TheAnalysis.data, "PE")
    IN IF ce > 0 THEN Frac(pe, ce) ELSE FracZero

\* the point counts, row by row of the table
TableBullish ==
      (IF SignalPcrOi > 150 THEN 2
       ELSE IF SignalPcrOi > 120 THEN 1 ELSE 0)
    + (IF 10 * SignalOiRatio[1] > 13 * SignalOiRatio[2] THEN 1 ELSE 0)
TableBearish ==
      (IF SignalPcrOi < 60 THEN 2
       ELSE IF SignalPcrOi < 80 THEN 1 ELSE 0)
    + (IF 10 * SignalOiRatio[1] < 7 * SignalOiRatio[2] THEN 1 ELSE 0)

\* the tier of the table: <<signal, option type>>, "none" when no row applies
TableTier ==
    IF TableBullish >= 3 THEN <<"STRONG BUY", "CE">>
    ELSE IF TableBullish >= 2 THEN <<"BUY", "CE">>
    ELSE IF TableBearish >= 3 THEN <<"STRONG SELL", "PE">>
    ELSE IF TableBearish >= 2 THEN <<"SELL", "PE">>
    ELSE <<"none", "none">>

\* C11: generate_advanced_signal maps the bullish and bearish point counts to
\* the tier in the order STRONG BUY, BUY, STRONG SELL, SELL: an emitted signal
\* has the tier and option type of the table, no signal is emitted when the
\* table gives none, and a tier of the table is missing only when no strike
\* could be selected; every BUY or STRONG BUY is CE, every SELL or STRONG SELL
\* is PE.
C11_TierFromPoints ==
    SignalReturned =>
        IF sg_signal.value # None
        THEN /\ <<sg_signal.value[1].signal, sg_signal.value[1].option_type>>
                    = TableTier
             /\ sg_signal.value[1].signal \in {"BUY", "STRONG BUY"} =>
                    sg_signal.value[1].option_type = "CE"
             /\ sg_signal.value[1].signal \in {"SELL", "STRONG SELL"} =>
                    sg_signal.value[1].option_type = "PE"
        ELSE TableTier[1] = "none" \/ NoEligibleCandidate(TableTier[2])

\* C11, its case: three bullish points, and a STRONG BUY for a call came out
C11_Witness ==
    /\ SignalReturned
    /\ sg_signal.value # None
    /\ TableBullish = 3
    /\ sg_signal.value[1].signal = "STRONG BUY"
    /\ sg_signal.value[1].option_type = "CE"

\* the other tiers come out too
C11_BuyReached ==
    SignalReturned /\ sg_signal.value # None /\ sg_signal.value[1].signal = "BUY"
C11_SellReached ==
    SignalReturned /\ sg_signal.value # None /\ sg_signal.value[1].signal = "SELL"
C11_StrongSellReached ==
    /\ SignalReturned
    /\ sg_signal.value # None
    /\ sg_signal.value[1].signal = "STRONG SELL"

----------------------------------------------------------------------------
\* Properties of the per-strike transformers

AnalyticsDone == an_analysis.done
AnalysedStrikes == an_analysis.value.strike_data

\* C12: after calculate_oi_skew every strike record has oi_skew in [-1, 1],
\* and oi_skew = 0 with oi_skew_absolute = 0 when ce_oi + pe_oi = 0.
C12_OiSkewInRange ==
    AnalyticsDone =>
        \A i \in DOMAIN AnalysedStrikes :
            LET s == AnalysedStrikes[i] IN
            /\ s.oi_skew[2] > 0
            /\ 0 - s.oi_skew[2] <= s.oi_skew[1]
            /\ s.oi_skew[1] <= s.oi_skew[2]
            /\ s.ce_oi + s.pe_oi = 0 =>
                  s.oi_skew[1] = 0 /\ s.oi_skew_absolute = 0

\* a snapshot with one strike at each end of the range and one without
\* open interest has been analysed
C12_Witness ==
    /\ AnalyticsDone
    /\ \E i \in DOMAIN AnalysedStrikes :
          AnalysedStrikes[i].ce_oi + AnalysedStrikes[i].pe_oi = 0
    /\ \E i \in DOMAIN AnalysedStrikes :
          /\ AnalysedStrikes[i].ce_oi = 0
          /\ AnalysedStrikes[i].oi_skew[1] = 0 - AnalysedStrikes[i].oi_skew[2]

\* The totals of a raw strike table, summed field by field
RawTotal(field) ==
    SumSeq([i \in DOMAIN an_processed_data.strike_data |->
               an_processed_data.strike_data[i][field]])

\* a fraction that is a number (its divisor is not 0) and is not negative
IsRatio(f) == f[2] > 0 /\ f[1] >= 0

\* C13: no ratio divides by zero.  pcr_oi and pcr_volume are >= 0 and are 0
\* when the total CE open interest (total CE volume) is 0; each strike's
\* ce_volume_oi_ratio and pe_volume_oi_ratio are >= 0 and are 0 when that
\* side's open interest is 0; the same holds of the pair the generator's
\* calculate_pcr returns.
C13_RatiosDefined ==
    /\ AnalyticsDone =>
        LET pcr == an_analysis.value.pcr IN
        /\ IsRatio(pcr.pcr_oi)
        /\ IsRatio(pcr.pcr_volume)
        /\ RawTotal("ce_oi") = 0 => pcr.pcr_oi[1] = 0
        /\ RawTotal("ce_volume") = 0 => pcr.pcr_volume[1] = 0
        /\ \A i \in DOMAIN AnalysedStrikes :
            LET s == AnalysedStrikes[i] IN
            /\ IsRatio(s.ce_volume_oi_ratio)
            /\ IsRatio(s.pe_volume_oi_ratio)
            /\ s.ce_oi = 0 => s.ce_volume_oi_ratio[1] = 0
            /\ s.pe_oi = 0 => s.pe_volume_oi_ratio[1] = 0
    /\ an_generator_pcr.done =>
        /\ an_generator_pcr.value[1] >= 0
        /\ an_generator_pcr.value[2] >= 0
        /\ RawTotal("ce_oi") = 0 => an_generator_pcr.value[1] = 0
        /\ RawTotal("ce_volume") = 0 => an_generator_pcr.value[2] = 0

\* both implementations have run on a chain with puts but no calls open, and
\* with volume traded on a side that has no open interest
C13_Witness ==
    /\ an_generator_pcr.done
    /\ RawTotal("ce_oi") = 0
    /\ RawTotal("pe_oi") > 0
    /\ \E i \in DOMAIN AnalysedStrikes :
          AnalysedStrikes[i].ce_oi = 0 /\ AnalysedStrikes[i].ce_volume > 0

\* the totals are positive and both implementations return ratios above 0
C13_PositiveWitness ==
    /\ an_generator_pcr.done
    /\ an_analysis.value.pcr.pcr_oi[1] > 0
    /\ an_analysis.value.pcr.pcr_volume[1] > 0
    /\ an_generator_pcr.value[1] > 0
    /\ an_generator_pcr.value[2] > 0

----------------------------------------------------------------------------
\* Properties of a symmetric chain

\* ce_oi = pe_oi at every strike of the snapshot
SymmetricChain ==
    \A i \in DOMAIN an_processed_data.strike_data :
        an_processed_data.strike_data[i].ce_oi =
            an_processed_data.strike_data[i].pe_oi

\* C14: for a symmetric chain the analysis gives pcr_oi = 1.0, oi_skew = 0 at
\* every strike and sentiment_score = 50.
C14_SymmetricChainNeutral ==
    (AnalyticsDone /\ SymmetricChain /\ an_processed_data.strike_data # << >>) =>
        /\ FracEQ(an_analysis.value.pcr.pcr_oi, Frac(1, 1))
        /\ \A i \in DOMAIN AnalysedStrikes : AnalysedStrikes[i].oi_skew[1] = 0
        /\ an_analysis.value.sentiment_score = 50

\* the part of C14 that holds of every symmetric chain: oi_skew = 0 at every
\* strike, and pcr_oi = 1.0 when any interest is open
C14_SymmetricSkewZero ==
    (AnalyticsDone /\ SymmetricChain) =>
        /\ \A i \in DOMAIN AnalysedStrikes : AnalysedStrikes[i].oi_skew[1] = 0
        /\ RawTotal("ce_oi") > 0 =>
              FracEQ(an_analysis.value.pcr.pcr_oi, Frac(1, 1))

\* a symmetric chain with open interest whose score is not 50
C14_ScoredAwayFromNeutral ==
    /\ AnalyticsDone
    /\ SymmetricChain
    /\ RawTotal("ce_oi") > 0
    /\ an_analysis.value.sentiment_score # 50

\* the payload's chain has both sides at every strike, with equal open
\* interest
SymmetricPayload ==
    /\ sg_data \notin MalformedPayloads
    /\ PayloadRows # << >>
    /\ \A i \in DOMAIN PayloadRows :
        LET r == PayloadRows[i] IN
        /\ {"CE", "PE"} \subseteq DOMAIN r
        /\ r.CE # None
        /\ r.PE # None
        /\ r.CE[1].openInterest = r.PE[1].openInterest

\* C15: for a symmetric chain generate_advanced_signal has bullish count 0
\* and bearish count 0 and emits no signal.
C15_SymmetricChainNoSignal ==
    (SymmetricPayload /\ SignalReturned) =>
        /\ Points.bullish = 0
        /\ Points.bearish = 0
        /\ sg_signal.value = None

\* the same for a symmetric chain with interest open in the window
C15_SymmetricOpenChainNoSignal ==
    (SymmetricPayload /\ SignalReturned
        /\ window_oi(TheAnalysis.data, "CE") > 0) =>
        /\ Points.bullish = 0
        /\ Points.bearish = 0
        /\ sg_signal.value = None

C15_OpenChainReached ==
    /\ SymmetricPayload
    /\ SignalReturned
    /\ window_oi(TheAnalysis.data, "CE") > 0

\* a symmetric chain for which a signal is emitted
C15_SymmetricChainSignals ==
    /\ SymmetricPayload
    /\ SignalReturned
    /\ sg_signal.value # None

----------------------------------------------------------------------------
\* Properties of the round trip

RawFields ==
    {"strike", "ce_oi", "pe_oi", "ce_volume", "pe_volume", "ce_change_oi",
     "pe_change_oi", "ce_last_price", "pe_last_price"}

\* strike table `after` has the records of `before` with their raw fields
SameRawFields(before, after) ==
    /\ Len(after) = Len(before)
    /\ \A i \in DOMAIN before : \A f \in RawFields : after[i][f] = before[i][f]

\* C16: the transformers change no raw field, so calculate_pcr and
\* find_max_pain on an analysis result's strike_data return what they return
\* on the original snapshot, and the pipeline run again on that strike_data
\* returns the same PCR and max pain.
C16_RoundTrip ==
    /\ AnalyticsDone =>
        /\ SameRawFields(an_processed_data.strike_data, AnalysedStrikes)
        /\ an_analysis.value.pcr = calculate_pcr(an_processed_data.strike_data)
        /\ an_analysis.value.max_pain =
               find_max_pain(an_processed_data.strike_data)
    /\ an_second.done =>
        /\ SameRawFields(an_processed_data.strike_data,
                         an_second.value.strike_data)
        /\ an_second.value.pcr = an_analysis.value.pcr
        /\ an_second.value.max_pain = an_analysis.value.max_pain

\* the second pass has run on a chain with interest open on both sides and
\* a skew at some strike
C16_Witness ==
    /\ an_second.done
    /\ Len(AnalysedStrikes) = MaxAnalyticsStrikes
    /\ an_analysis.value.pcr.pcr_oi[1] > 0
    /\ an_analysis.value.max_pain # None
    /\ \E i \in DOMAIN AnalysedStrikes : AnalysedStrikes[i].oi_skew[1] # 0

----------------------------------------------------------------------------
\* Properties of the buildup labels

\* the label the rule gives one side
RuleLabel(change_oi, last_price) ==
    IF change_oi > 1000 /\ last_price > 0 THEN "LONG" ELSE "NEUTRAL"

\* C20: identify_buildup labels a side LONG exactly when its change_oi > 1000
\* and its last_price > 0, and NEUTRAL in every other case; ce_buildup and
\* pe_buildup are never SHORT.
C20_BuildupLongOrNeutral ==
    AnalyticsDone =>
        \A i \in DOMAIN AnalysedStrikes :
            LET s == AnalysedStrikes[i] IN
            /\ s.ce_buildup = RuleLabel(s.ce_change_oi, s.ce_last_price)
            /\ s.pe_buildup = RuleLabel(s.pe_change_oi, s.pe_last_price)
            /\ s.ce_buildup # "SHORT"
            /\ s.pe_buildup # "SHORT"

\* one analysed table has a LONG side, a side just at the threshold and a
\* side above the threshold without a price
C20_Witness ==
    /\ AnalyticsDone
    /\ \E i \in DOMAIN AnalysedStrikes :
          /\ AnalysedStrikes[i].ce_buildup = "LONG"
          /\ AnalysedStrikes[i].pe_change_oi = 1000
          /\ AnalysedStrikes[i].pe_buildup = "NEUTRAL"
    /\ \E i \in DOMAIN AnalysedStrikes :
          /\ AnalysedStrikes[i].ce_change_oi > 1000
          /\ AnalysedStrikes[i].ce_last_price = 0
          /\ AnalysedStrikes[i].ce_buildup = "NEUTRAL"

----------------------------------------------------------------------------
\* Properties of the expiry selection

\* the days of the listed expiries that are dates
ListedDays ==
    {sg_data[1].records[1].expiryDates[i].day :
        i \in {j \in DOMAIN sg_data[1].records[1].expiryDates :
                  sg_data[1].records[1].expiryDates[j].form
                      \in {"padded", "unpadded"}}}

\* the least of a set of days
Earliest(S) == CHOOSE d \in S : \A e \in S : d <= e

\* the expiry the rule selects
RuleExpiry ==
    IF \E d \in ListedDays : d >= today
    THEN Earliest({d \in ListedDays : d >= today})
    ELSE Earliest(ListedDays)

\* C17: analyze_atm_strikes selects the nearest listed expiry that is on or
\* after today; when no listed expiry is on or after today it falls back to
\* the earliest listed expiry.
C17_NearestExpirySelected ==
    (sg_analysis.done /\ ListedDays # {}) =>
        /\ sg_analysis.raised = ""
        /\ sg_analysis.value # None
        /\ sg_analysis.value[1].expiry.day = RuleExpiry
        /\ \A i \in DOMAIN sg_analysis.value[1].all_data :
              sg_analysis.value[1].all_data[i].expiryDate.day = RuleExpiry

\* an unsorted list with a past expiry and two expiries ahead has been
\* analysed
C17_Witness ==
    /\ sg_analysis.done
    /\ today = 2
    /\ sg_data[1].records[1].expiryDates =
           <<DateString(3, "padded"), DateString(1, "padded"),
             DateString(2, "padded")>>
    /\ sg_analysis.value[1].expiry.day = 2

\* every listed expiry is past and the list is not in date order
C17_FallbackWitness ==
    /\ sg_analysis.done
    /\ today = 4
    /\ sg_data[1].records[1].expiryDates =
           <<DateString(3, "padded"), DateString(1, "padded")>>
    /\ sg_analysis.value[1].expiry.day = 1

\* analyze_skew_patterns never sets the bullish and the bearish flag together
SkewFlagsExclusive ==
    AnalyticsDone =>
        ~(an_analysis.value.skew_patterns.bullish_skew
            /\ an_analysis.value.skew_patterns.bearish_skew)

----------------------------------------------------------------------------
\* Properties of the support and resistance levels

LevelTable == an_processed_data.strike_data
LevelSpot == an_processed_data.spot_price

\* T holds the strikes of highest `key` open interest, five of them or all:
\* no strike left out has more than a strike taken in
IsTopFive(T, key) ==
    /\ T \subseteq DOMAIN LevelTable
    /\ Cardinality(T) = Min(5, Len(LevelTable))
    /\ \A i \in T : \A j \in DOMAIN LevelTable \ T :
          LevelTable[i][key] >= LevelTable[j][key]

\* the sequence lists, in ascending order, the n highest (or lowest) of S
IsAscending(seq) == \A i \in 1 .. (Len(seq) - 1) : seq[i] < seq[i + 1]
Highest(S, n) == {x \in S : Cardinality({y \in S : y > x}) < n}
Lowest(S, n) == {x \in S : Cardinality({y \in S : y < x}) < n}

\* C21: support is the up to 3 highest strikes, ascending, among those of the
\* 5 highest-PE-OI strikes that lie strictly below spot; resistance is the up
\* to 3 lowest strikes, ascending, among those of the 5 highest-CE-OI strikes
\* that lie strictly above spot; strong_support is the minimum of all support
\* candidates and strong_resistance the maximum of all resistance
\* candidates, each None when its candidate set is empty.
C21_SupportResistance ==
    an_analysis.done =>
        LET sr == an_analysis.value.support_resistance IN
        /\ \E T \in SUBSET DOMAIN LevelTable :
            LET candidates == {LevelTable[i].strike : i \in
                                  {j \in T : LevelTable[j].strike < LevelSpot}}
            IN /\ IsTopFive(T, "pe_oi")
               /\ IsAscending(sr.support)
               /\ Range(sr.support) = Highest(candidates, 3)
               /\ sr.strong_support =
                    (IF candidates = {} THEN None
                     ELSE Some(CHOOSE x \in candidates :
                                  \A y \in candidates : x <= y))
        /\ \E T \in SUBSET DOMAIN LevelTable :
            LET candidates == {LevelTable[i].strike : i \in
                                  {j \in T : LevelTable[j].strike > LevelSpot}}
            IN /\ IsTopFive(T, "ce_oi")
               /\ IsAscending(sr.resistance)
               /\ Range(sr.resistance) = Lowest(candidates, 3)
               /\ sr.strong_resistance =
                    (IF candidates = {} THEN None
                     ELSE Some(CHOOSE x \in candidates :
                                  \A y \in candidates : x >= y))

\* six strikes, one of them cut for its low put interest, four support
\* candidates left: the lowest is strong_support and is not among the three
\* of `support`
C21_Witness ==
    /\ an_analysis.done
    /\ Len(LevelTable) = MaxLevelStrikes
    /\ LevelSpot = 450
    /\ LevelTable[5].pe_oi = 1
    /\ \A i \in DOMAIN LevelTable : i # 5 => LevelTable[i].pe_oi > 1
    /\ Len(an_analysis.value.support_resistance.support) = 3
    /\ an_analysis.value.support_resistance.strong_support = Some(100)
    /\ an_analysis.value.support_resistance.support[1] = 200

\* four resistance candidates: the highest is strong_resistance and is not
\* among the three of `resistance`
C21_ResistanceWitness ==
    /\ an_analysis.done
    /\ Len(LevelTable) = MaxLevelStrikes
    /\ LevelSpot = 250
    /\ an_analysis.value.support_resistance.resistance = <<300, 400, 500>>
    /\ an_analysis.value.support_resistance.strong_resistance = Some(600)

----------------------------------------------------------------------------
\* Properties of the strike scores

\* the rows of the window that are candidates for the side asked for
EligibleRows ==
    {i \in DOMAIN TheAnalysis.data :
        LET r == TheAnalysis.data[i] IN
        /\ sg_option_type \in DOMAIN r
        /\ r[sg_option_type] # None
        /\ r[sg_option_type][1] # << >>
        /\ sg_option_type = "CE" =>
              ~BelowFloor(r.strikePrice, TheAnalysis.current_price)
        /\ sg_option_type = "PE" =>
              ~AboveCeil(r.strikePrice, TheAnalysis.current_price)}

RowSide(i) == TheAnalysis.data[i][sg_option_type][1]

\* how many analysed strikes lie between the row's strike and the ATM strike
StepsFromAtm(i) ==
    LET x == TheAnalysis.data[i].strikePrice
        a == TheAnalysis.atm_strike
    IN Cardinality({k \in Range(TheAnalysis.strikes_analyzed) :
                       (x < k /\ k <= a) \/ (a < k /\ k <= x)})

\* the score of the table, in 1/5000
TableUnits(i) ==
    LET steps == StepsFromAtm(i)
        side == RowSide(i)
        proximity == IF steps = 0 THEN 60 ELSE IF steps = 1 THEN 50
                     ELSE Max(0, 40 - 5 * steps)
        oi_term == Min(side.openInterest, 50000)
        coi_term == 10 * side.changeinOpenInterest
        volume_term == Min(5 * side.totalTradedVolume, 15000)
        iv_term == Max(0, 25000 - 1000 * side.impliedVolatility)
        momentum == IF side.pChange > 0 THEN 10000 ELSE 0
    IN 5000 * proximity + oi_term + coi_term + volume_term + iv_term
           + momentum

\* the same rounded to the nearest hundredth, in hundredths (no sum here lies
\* half-way between two hundredths)
TableScore(i) == (TableUnits(i) + 25) \div 50

StrikeChosen == Analysed /\ sg_choice.done /\ sg_choice.value # None

\* C22: select_optimal_strike returns, among the eligible candidates of the
\* ATM window, one with the highest score of the table, and among the
\* candidates with the highest score one with the highest volume.
C22_HighestScoreThenVolume ==
    StrikeChosen =>
        LET chosen == sg_choice.value[1] IN
        \E i \in EligibleRows :
            /\ TheAnalysis.data[i].strikePrice = chosen.strike
            /\ \A j \in EligibleRows :
                  /\ TableUnits(j) <= TableUnits(i)
                  /\ TableUnits(j) = TableUnits(i) =>
                        RowSide(j).totalTradedVolume
                            <= RowSide(i).totalTradedVolume

\* What the sort does compare is the score the candidate carries, the
\* table's sum rounded to two decimals: the result has the highest rounded
\* score and, among the candidates with that rounded score, the highest
\* volume.
C22_HighestRoundedScoreThenVolume ==
    StrikeChosen =>
        LET chosen == sg_choice.value[1] IN
        /\ \E i \in EligibleRows :
              /\ TheAnalysis.data[i].strikePrice = chosen.strike
              /\ TableScore(i) = chosen.score
              /\ RowSide(i).totalTradedVolume = chosen.volume
        /\ \A i \in EligibleRows :
              /\ TableScore(i) <= chosen.score
              /\ TableScore(i) = chosen.score =>
                    RowSide(i).totalTradedVolume <= chosen.volume

\* two candidates with the same rounded score, the first with the higher
\* sum: the one that comes later in the chain has the higher volume and is
\* returned
C22_Witness ==
    /\ StrikeChosen
    /\ \E i, j \in EligibleRows :
          /\ i < j
          /\ TableScore(i) = TableScore(j)
          /\ TableUnits(i) > TableUnits(j)
          /\ RowSide(i).totalTradedVolume < RowSide(j).totalTradedVolume
          /\ sg_choice.value[1].strike = TheAnalysis.data[j].strikePrice

\* three candidates with three different scores, the highest neither the
\* first nor the last of the window
C22_ScoreWitness ==
    /\ StrikeChosen
    /\ \E i, j, k \in EligibleRows :
          /\ i < j /\ j < k
          /\ TableScore(i) < TableScore(j)
          /\ TableScore(k) < TableScore(j)
          /\ TableScore(i) # TableScore(k)
          /\ sg_choice.value[1].strike = TheAnalysis.data[j].strikePrice

\* ---- C23 ----
\* the row of the chain the chosen candidate was built from
ChosenRow ==
    CHOOSE i \in EligibleRows :
        TheAnalysis.data[i].strikePrice = sg_choice.value[1].strike

\* the proximity reason of row i
ProximityReason(i) ==
    IF StepsFromAtm(i) = 0 THEN [label |-> "ATM Strike", steps |-> 0]
    ELSE IF StepsFromAtm(i) = 1 THEN [label |-> "Near-ATM", steps |-> 0]
    ELSE [label |-> "steps from ATM", steps |-> StepsFromAtm(i)]

\* reasons is the justification list of row i, "Low IV" being due exactly
\* when low_iv holds
IsJustification(reasons, i, low_iv) ==
    LET side == RowSide(i)
        labels == [k \in 1 .. Len(reasons) |-> reasons[k].label]
        At(label) == {k \in 1 .. Len(reasons) : labels[k] = label}
        Once(label, due) == Cardinality(At(label)) = (IF due THEN 1 ELSE 0)
        Before(a, b) == \A k \in At(a) : \A l \in At(b) : k < l
    IN /\ Len(reasons) >= 1
       /\ reasons[1] = ProximityReason(i)
       /\ \A k \in 2 .. Len(reasons) :
             labels[k] \in {"Fresh Long Buildup", "Long Unwinding",
                            "High Volume", "Low IV"}
       /\ Once("Fresh Long Buildup", side.changeinOpenInterest > 0)
       /\ Once("Long Unwinding", side.changeinOpenInterest < 0)
       /\ Once("High Volume", side.totalTradedVolume > 1000)
       /\ Once("Low IV", low_iv)
       /\ Before("Fresh Long Buildup", "High Volume")
       /\ Before("Long Unwinding", "High Volume")
       /\ Before("Fresh Long Buildup", "Low IV")
       /\ Before("Long Unwinding", "Low IV")
       /\ Before("High Volume", "Low IV")

\* C23: the justification list of a selected candidate holds, in
\* this order, exactly one proximity reason, then 'Fresh Long Buildup' exactly
\* when coi > 0 or 'Long Unwinding' exactly when coi < 0, then 'High Volume'
\* exactly when volume > 1000, then 'Low IV' exactly when iv < 20.
C23_JustificationList ==
    StrikeChosen =>
        IsJustification(sg_choice.value[1].selection_reason, ChosenRow,
                        RowSide(ChosenRow).impliedVolatility < 20)

\* C23 with the guard of the code: the same list, 'Low IV' exactly when iv is
\* not zero and iv < 20; a candidate with no implied volatility quoted gets
\* no 'Low IV'.
C23_JustificationListQuotedIv ==
    StrikeChosen =>
        IsJustification(sg_choice.value[1].selection_reason, ChosenRow,
                        /\ RowSide(ChosenRow).impliedVolatility # 0
                        /\ RowSide(ChosenRow).impliedVolatility < 20)

\* a candidate with implied volatility 0 is selected and justified
C23_Witness ==
    /\ StrikeChosen
    /\ RowSide(ChosenRow).impliedVolatility = 0
    /\ Len(sg_choice.value[1].selection_reason) = 1

\* a candidate with all four reasons is selected
C23_AllReasonsWitness ==
    /\ StrikeChosen
    /\ Len(sg_choice.value[1].selection_reason) = 4

----------------------------------------------------------------------------
\* Properties of the skew patterns

\* C24 is stated over whole numbers: the open interest of a set of strikes is
\* a count of pairs, and average(A) > 1.2 * average(B) is compared after
\* multiplying by both sizes (an empty set counting as size 1, total 0).
CallsAbove == {i \in DOMAIN LevelTable : LevelTable[i].strike > LevelSpot + 200}
PutsBelow == {i \in DOMAIN LevelTable : LevelTable[i].strike < LevelSpot - 200}
TotalOi(S, key) ==
    Cardinality({p \in S \X (1 .. 4) : p[2] <= LevelTable[p[1]][key]})
SizeOf(S) == IF S = {} THEN 1 ELSE Cardinality(S)
AverageExceeds(A, keyA, B, keyB) ==
    10 * TotalOi(A, keyA) * SizeOf(B) > 12 * TotalOi(B, keyB) * SizeOf(A)

TheSkew == an_analysis.value.skew_patterns

\* the stored analysis with the neutral flag turned off
NeutralOff ==
    [StoredData EXCEPT ![Symbols[1]] =
        Some([StoredData[Symbols[1]][1] EXCEPT
                 !.analysis.skew_patterns.neutral_skew = FALSE])]

C24_BearishWitness ==
    /\ AnalyticsDone
    /\ CallsAbove # {}
    /\ PutsBelow # {}
    /\ TheSkew.bearish_skew
    /\ ~TheSkew.bullish_skew

\* a bullish skew against an empty set of puts, with a strike at the offset
C24_EmptySetWitness ==
    /\ AnalyticsDone
    /\ \E i \in DOMAIN LevelTable : LevelTable[i].strike = LevelSpot + 200
    /\ PutsBelow = {}
    /\ TheSkew.bullish_skew

----------------------------------------------------------------------------
\* Properties of the stored state over fetch cycles

Incomplete == {"no_data", "process_failed", "raised"}

\* the buffer after one more point, cut to the window
WithPoint(buffer, point) ==
    LET grown == Append(buffer, point)
    IN IF Len(grown) <= max_historical_points THEN grown
       ELSE SubSeq(grown, Len(grown) - max_historical_points + 1, Len(grown))

\* one iteration of fetch_all_chains for symbol s
ChainIteration(s) ==
    (InLoop /\ Symbols[sym_idx] = s /\ sym_idx' = sym_idx + 1) =>
        IF outcome'[s] \in Incomplete
        THEN /\ current_data'[s] = current_data[s]
             /\ ListOf(historical_data', heap', s) = Buffer(s)
        ELSE /\ outcome'[s] = "completed"
             /\ current_data'[s] # None
             /\ ListOf(historical_data', heap', s) =
                    WithPoint(Buffer(s),
                              HistoryPoint(current_data'[s][1], clock))

\* one iteration of fetch_and_process_data for symbol s
AppIteration(s) ==
    (AppInLoop /\ CONFIG_SYMBOLS[app_idx] = s /\ app_idx' = app_idx + 1) =>
        IF app_outcome'[s] \in Incomplete
        THEN app_market_data'[s] = app_market_data[s]
        ELSE /\ app_outcome'[s] = "completed"
             /\ app_market_data'[s].data # None
             /\ app_market_data'[s].analysis # None
             /\ app_market_data'[s].timestamp # None

\* an analysis once stored stays
AnalysisKept(s) ==
    /\ current_data[s] # None => current_data'[s] # None
    /\ app_get_symbol_data(app_market_data, s).status = 200
          => app_get_symbol_data(app_market_data', s).status = 200

C25_AppWitness ==
    \E s \in SymbolSet :
        /\ app_cycles >= 2
        /\ app_outcome[s] = "raised"
        /\ app_get_symbol_data(app_market_data, s).status = 200

\* a completed cycle at a full window: the history keeps its length
C25_FullWindowWitness ==
    \E s \in SymbolSet :
        /\ outcome[s] = "completed"
        /\ Len(appended[s]) > max_historical_points
        /\ Len(Buffer(s)) = max_historical_points

\* a completed cycle below the window: the history is one point longer
C25_GrowthWitness ==
    \E s \in SymbolSet :
        /\ max_historical_points = DEFAULT_MAX_HISTORICAL_POINTS
        /\ outcome[s] = "completed"
        /\ Len(Buffer(s)) = MaxCycles

----------------------------------------------------------------------------
\* Properties of the trading signals

\* get_trading_signals returned a result for a symbol that has an analysis
SignalsReturned ==
    /\ ts_result.done
    /\ ts_result.raised = ""
    /\ ts_result.value # << >>

Breakouts == {"Breaking strong resistance - BULLISH",
              "Breaking strong support - BEARISH"}

\* C26: in get_trading_signals, with the analysis _perform_analytics produced
\* from the same spot, the support/resistance breakout rule never fires, and
\* the confidence is always between 15 and 80.
C26_NoBreakoutConfidenceRange ==
    SignalsReturned =>
        /\ Range(ts_result.value.signals) \cap Breakouts = {}
        /\ ts_result.value.confidence >= 15
        /\ ts_result.value.confidence <= 80

\* both strong levels are set, every other rule fired: confidence 80
C26_Witness ==
    /\ SignalsReturned
    /\ an_analysis.value.support_resistance.strong_resistance # None
    /\ an_analysis.value.support_resistance.strong_support # None
    /\ ts_result.value.confidence = 80
    /\ Len(ts_result.value.signals) = 4

\* only the max-pain rule fired: confidence 15
C26_LowestWitness ==
    /\ SignalsReturned
    /\ an_analysis.value.support_resistance.strong_resistance # None
    /\ ts_result.value.confidence = 15
    /\ Len(ts_result.value.signals) = 1

\* an empty strike table has no max pain: the call raises
C26_NoMaxPainWitness ==
    /\ ts_result.done
    /\ ts_result.raised = "TypeError"
    /\ an_analysis.done
    /\ LevelTable = << >>

----------------------------------------------------------------------------
\* Properties of the point counts

PointsCounted == tp_result.done

\* the tier with the bearish tiers tested first
TierBearishFirst(bullish, bearish) ==
    IF bearish >= 3 THEN "STRONG SELL"
    ELSE IF bearish >= 2 THEN "SELL"
    ELSE IF bullish >= 3 THEN "STRONG BUY"
    ELSE IF bullish >= 2 THEN "BUY"
    ELSE "none"

TierName(tier) == IF tier = None THEN "none" ELSE tier[1].signal

\* C27: in generate_advanced_signal the bullish count and the bearish count
\* are never both >= 2 for any pcr_oi and oi_ratio, so the emitted tier does
\* not depend on the bullish tiers being tested before the bearish ones;
\* STRONG BUY requires pcr_oi > 1.5 together with oi_ratio > 1.3 and STRONG
\* SELL requires pcr_oi < 0.6 together with oi_ratio < 0.7.
C27_CountsExclusive ==
    PointsCounted =>
        LET r == tp_result.value IN
        /\ ~(r.bullish >= 2 /\ r.bearish >= 2)
        /\ TierName(r.tier) = TierBearishFirst(r.bullish, r.bearish)
        /\ TierName(r.tier) = "STRONG BUY" <=>
              /\ tp_pcr_oi > 150
              /\ 10 * tp_oi_ratio[1] > 13 * tp_oi_ratio[2]
        /\ TierName(r.tier) = "STRONG SELL" <=>
              /\ tp_pcr_oi < 60
              /\ 10 * tp_oi_ratio[1] < 7 * tp_oi_ratio[2]

\* both counts are positive at once: a high pcr_oi over all rows with a low
\* oi_ratio in the window
C27_Witness ==
    /\ PointsCounted
    /\ tp_result.value.bullish = 2
    /\ tp_result.value.bearish = 1
    /\ TierName(tp_result.value.tier) = "BUY"

\* the strong tiers and the thresholds themselves
C27_StrongSellWitness ==
    /\ PointsCounted
    /\ tp_result.value.bearish = 3
    /\ TierName(tp_result.value.tier) = "STRONG SELL"
C27_ThresholdWitness ==
    /\ PointsCounted
    /\ tp_pcr_oi = 150
    /\ tp_oi_ratio = Frac(131, 100)
    /\ TierName(tp_result.value.tier) = "BUY"

====
